---- MODULE Spec2Model ----
(***************************************************************************)
(* Backtest engine of kis-quant (server/src/backtest/engine.py): input     *)
(* validation, market data, indicator cache, condition evaluation and the  *)
(* day-by-day portfolio simulation.                                        *)
(*                                                                         *)
(* Numbers.  Indicator values are exact rationals <<n, d>> with d > 0, or  *)
(* NaN == <<0, 0>> (pandas' undefined entry).  Money is Decimal in the    *)
(* source; rates are given in percent, so every amount is a multiple of    *)
(* 1/10000 and is stored multiplied by MoneyScale.                         *)
(***************************************************************************)
EXTENDS Integers, Sequences, FiniteSets, TLC

VARIABLES
    strategy,         \* the strategy descriptor passed to run_backtest
    config,           \* the backtest config passed to run_backtest
    progress_callback,\* self.progress_callback is set (TRUE) or None (FALSE)
    pc,               \* position inside run_backtest
    market_data,      \* symbol -> sequence of bars
    indicators_data,  \* symbol -> (key -> series)
    i,                \* index of the current primary bar (0-based)
    sym_pos,          \* position in strategy['symbols'] inside the day (1-based)
    cash,             \* cash * MoneyScale
    positions,        \* symbol -> quantity (only symbols that were bought)
    trades,           \* the trade ledger
    daily_returns,    \* the equity curve
    notified,         \* progress notifications delivered to the sink
    error,            \* the exception run_backtest raised, "" if none
    evCond, evInd, evIndex, evResult, \* one call of _evaluate_single_condition
    sink,             \* what the progress sink does when awaited
    previous,         \* strategy id -> outcome of an earlier run of that strategy
    suspended,        \* the frame of a second coroutine waiting at an await
    bots,             \* TradingScheduler.active_bots: bot key -> the TradingBot
    loops,            \* the _trading_loop coroutines suspended in asyncio.sleep
    job,              \* the market-open job: idle, or awaiting a bot's start_trading
    clock,            \* the wall clock: calendar day, weekend or not, market open or not
    halted,           \* bots whose stop_trading returned with no start_trading since
    manager,          \* a PositionManager
    returned          \* what the last add_transaction returned

vars == <<strategy, config, progress_callback, pc, market_data, indicators_data,
          i, sym_pos, cash, positions, trades, daily_returns, notified, error,
          evCond, evInd, evIndex, evResult, sink, previous, suspended,
          bots, loops, job, clock, halted, manager, returned>>

\* the live-trading side (trading/bot.py, scheduler.py, position_manager.py)
tradingVars == <<bots, loops, job, clock, halted, manager, returned>>

\* what lies outside one call of run_backtest
callVars == <<sink, previous, suspended, tradingVars>>

runVars == <<strategy, config, progress_callback, pc, market_data, indicators_data,
             i, sym_pos, cash, positions, trades, daily_returns, notified, error>>

evVars == <<evCond, evInd, evIndex, evResult>>

----------------------------------------------------------------------------
(* Bounds of the model *)

MaxDays == 3          \* dates of a run are 1..MaxDays
MaxPrice == 2         \* closes are 1..MaxPrice
EvalLen == 2          \* length of the series a single condition is evaluated on
MaxLen == 4           \* length of the equity curves and ledgers given to the metrics
MaxCalls == 3         \* add_transaction calls on one PositionManager
MaxLoops == 2         \* _trading_loop coroutines alive at the same time
TradingDays == 2      \* calendar days of live trading are 1..TradingDays

----------------------------------------------------------------------------
(* Exact arithmetic *)

MoneyScale == 10000

Has(rec, field) == field \in DOMAIN rec

Abs(x) == IF x < 0 THEN -x ELSE x

\* Python's int() on a quotient of two Decimals: truncation toward zero
IntDiv(a, b) ==
    IF b = 0 THEN 0
    ELSE IF (a >= 0) = (b > 0) THEN Abs(a) \div Abs(b) ELSE -(Abs(a) \div Abs(b))

Min(a, b) == IF a < b THEN a ELSE b

NaN == <<0, 0>>

Rat(n, d) == <<n, d>>

RAdd(a, b) == <<a[1] * b[2] + b[1] * a[2], a[2] * b[2]>>

RSub(a, b) == <<a[1] * b[2] - b[1] * a[2], a[2] * b[2]>>

RMul(a, b) == <<a[1] * b[1], a[2] * b[2]>>

\* comparisons of floats; any comparison with NaN is False
RGt(a, b) == a # NaN /\ b # NaN /\ a[1] * b[2] > b[1] * a[2]

RGe(a, b) == a # NaN /\ b # NaN /\ a[1] * b[2] >= b[1] * a[2]

RLt(a, b) == a # NaN /\ b # NaN /\ a[1] * b[2] < b[1] * a[2]

RLe(a, b) == a # NaN /\ b # NaN /\ a[1] * b[2] <= b[1] * a[2]

\* abs(a - b) < 1e-6
REq(a, b) ==
    /\ a # NaN
    /\ b # NaN
    /\ Abs(a[1] * b[2] - b[1] * a[2]) * 1000000 < a[2] * b[2]

RECURSIVE Gcd(_, _)
Gcd(a, b) == IF b = 0 THEN a ELSE Gcd(b, a % b)

\* the quotient n / d in lowest terms; NaN for d = 0
Reduce(r) ==
    IF r[2] = 0 THEN NaN
    ELSE LET g == Gcd(Abs(r[1]), Abs(r[2]))
             sign == IF r[2] < 0 THEN -1 ELSE 1
         IN  Rat(sign * (r[1] \div g), sign * (r[2] \div g))

----------------------------------------------------------------------------
(* indicators.py *)

RECURSIVE SumRange(_, _, _)
SumRange(s, lo, hi) == IF lo > hi THEN 0 ELSE s[hi] + SumRange(s, lo, hi - 1)

\* a numeric series (pd.Series): [frame |-> "", vals |-> sequence of values]
Series(vals) == [frame |-> "", vals |-> vals]

\* a pd.DataFrame of the same length: its columns and the call that built it
Frame(kind, columns, params, len) ==
    [frame |-> kind, columns |-> columns, params |-> params, len |-> len]

IsFrame(ind) == ind.frame # ""

SeriesLen(ind) == IF IsFrame(ind) THEN ind.len ELSE Len(ind.vals)

\* data.rolling(window=period, min_periods=period).mean()
sma(data, period) ==
    Series([t \in 1..Len(data) |->
             IF period >= 1 /\ t >= period
             THEN Rat(SumRange(data, t - period + 1, t), period)
             ELSE NaN])

\* data.ewm(span=period, adjust=False).mean()
RECURSIVE EmaAt(_, _, _)
EmaAt(data, period, t) ==
    IF t = 1 THEN Rat(data[1], 1)
    ELSE RAdd(RMul(Rat(2, period + 1), Rat(data[t], 1)),
              RMul(Rat(period - 1, period + 1), EmaAt(data, period, t - 1)))

ema(data, period) == Series([t \in 1..Len(data) |-> EmaAt(data, period, t)])

\* delta.where(delta > 0, 0) and -delta.where(delta < 0, 0); delta[first] is NaN
Gain(data, t) == IF t > 1 /\ data[t] > data[t - 1] THEN data[t] - data[t - 1] ELSE 0

Loss(data, t) == IF t > 1 /\ data[t] < data[t - 1] THEN data[t - 1] - data[t] ELSE 0

RECURSIVE SumGain(_, _, _)
SumGain(data, lo, hi) ==
    IF lo > hi THEN 0 ELSE Gain(data, hi) + SumGain(data, lo, hi - 1)

RECURSIVE SumLoss(_, _, _)
SumLoss(data, lo, hi) ==
    IF lo > hi THEN 0 ELSE Loss(data, hi) + SumLoss(data, lo, hi - 1)

\* rs = gain / loss is inf for loss = 0 < gain and NaN for 0 / 0
rsi(data, period) ==
    Series([t \in 1..Len(data) |->
             IF period < 1 \/ t < period THEN NaN
             ELSE LET gain == SumGain(data, t - period + 1, t)
                      loss == SumLoss(data, t - period + 1, t)
                  IN  IF loss = 0
                      THEN IF gain = 0 THEN NaN ELSE Rat(100, 1)
                      ELSE Rat(100 * gain, gain + loss)])

macd(data, fast_period, slow_period, signal_period) ==
    Frame("MACD", {"macd", "signal", "histogram"},
          <<fast_period, slow_period, signal_period>>, Len(data))

bollinger_bands(data, period, std_dev) ==
    Frame("BB", {"upper", "middle", "lower"}, <<period, std_dev>>, Len(data))

stochastic(data, k_period, d_period) ==
    Frame("STOCH", {"k", "d"}, <<k_period, d_period>>, Len(data))

\* rolling(window=period) leaves the first period - 1 rows of bollinger_bands
\* and of stochastic without a value in any column; ewm leaves none in macd
FrameUndefinedAt(df, index) ==
    /\ df.frame \in {"BB", "STOCH"}
    /\ index + 1 < df.params[1]

----------------------------------------------------------------------------
(* engine.py: indicator cache *)

SupportedTypes == {"SMA", "EMA", "RSI", "MACD", "BB", "STOCH", "VOLUME", "PRICE"}

Column(df, field) == [t \in 1..Len(df) |-> df[t][field]]

KeyPart(indicator_config, field, tag) ==
    IF Has(indicator_config, field)
    THEN "_" \o tag \o "_" \o ToString(indicator_config[field])
    ELSE ""

get_indicator_key(indicator_config) ==
    indicator_config.type
      \o KeyPart(indicator_config, "period", "period")
      \o KeyPart(indicator_config, "fastPeriod", "fast")
      \o KeyPart(indicator_config, "slowPeriod", "slow")
      \o KeyPart(indicator_config, "signalPeriod", "signal")
      \o KeyPart(indicator_config, "stdDev", "std")

\* indicator_config.get(field, default)
Get(indicator_config, field, default) ==
    IF Has(indicator_config, field) THEN indicator_config[field] ELSE default

\* the ValueError of the final else branch
Unsupported == [frame |-> "ValueError"]

calculate_single_indicator(df, indicator_config) ==
    LET indicator_type == indicator_config.type
        close == Column(df, "close")
    IN  CASE indicator_type = "SMA" ->
               sma(close, Get(indicator_config, "period", 20))
          [] indicator_type = "EMA" ->
               ema(close, Get(indicator_config, "period", 20))
          [] indicator_type = "RSI" ->
               rsi(close, Get(indicator_config, "period", 14))
          [] indicator_type = "MACD" ->
               macd(close, Get(indicator_config, "fastPeriod", 12),
                    Get(indicator_config, "slowPeriod", 26),
                    Get(indicator_config, "signalPeriod", 9))
          [] indicator_type = "BB" ->
               bollinger_bands(close, Get(indicator_config, "period", 20),
                               Get(indicator_config, "stdDev", 2))
          [] indicator_type = "STOCH" ->
               stochastic(close, Get(indicator_config, "kPeriod", 14),
                          Get(indicator_config, "dPeriod", 3))
          [] indicator_type = "VOLUME" ->
               Series([t \in 1..Len(df) |-> Rat(df[t].volume, 1)])
          [] indicator_type = "PRICE" ->
               Series([t \in 1..Len(df) |-> Rat(close[t], 1)])
          [] OTHER -> Unsupported

AddIndicatorSkipUnknown(acc, df, indicator_config) ==
    LET indicator_key == get_indicator_key(indicator_config)
        computed == calculate_single_indicator(df, indicator_config)
    IN  IF indicator_key \in DOMAIN acc.cache \/ computed = Unsupported THEN acc
        ELSE [acc EXCEPT !.cache = (indicator_key :> computed) @@ acc.cache]

\* lines 148-150 and 154-156: compute the series unless its key is cached
AddIndicator(acc, df, indicator_config) ==
    LET indicator_key == get_indicator_key(indicator_config)
        computed == calculate_single_indicator(df, indicator_config)
    IN  IF indicator_key \in DOMAIN acc.cache THEN acc
        ELSE IF computed = Unsupported THEN [acc EXCEPT !.error = "ValueError"]
        ELSE [acc EXCEPT !.cache = (indicator_key :> computed) @@ acc.cache]

\* the loop over all_conditions; acc = [cache, error]
RECURSIVE CacheConditions(_, _, _)
CacheConditions(all_conditions, df, acc) ==
    IF all_conditions = <<>> \/ acc.error # "" THEN acc
    ELSE LET condition == Head(all_conditions)
         IN  IF ~Has(condition, "leftIndicator")
             THEN [acc EXCEPT !.error = "KeyError"]
             ELSE LET a1 == AddIndicator(acc, df, condition.leftIndicator)
                      a2 == IF a1.error = "" /\ Has(condition, "rightIndicator")
                            THEN AddIndicator(a1, df, condition.rightIndicator)
                            ELSE a1
                  IN  CacheConditions(Tail(all_conditions), df, a2)

RECURSIVE AllConditions(_)
AllConditions(groups) ==
    IF groups = <<>> THEN <<>>
    ELSE Head(groups).conditions \o AllConditions(Tail(groups))

EmptyCache == [cache |-> <<>>, error |-> ""]

\* the indicators of one symbol, or the error raised while computing them
SymbolIndicators(strat, df) ==
    CacheConditions(AllConditions(strat.buyConditions \o strat.sellConditions),
                    df, EmptyCache)

----------------------------------------------------------------------------
(* engine.py: condition evaluation *)

\* values.iloc[index]: a number of a Series, a labelled row of a DataFrame
\* (a negative index counts from the end)
ILoc(values, index) ==
    IF IsFrame(values) THEN [row |-> values.columns, num |-> NaN]
    ELSE [row |-> {},
          num |-> values.vals[IF index < 0 THEN Len(values.vals) + index + 1
                              ELSE index + 1]]

Literal(n) == [row |-> {}, num |-> Rat(n, 1)]

IsRow(v) == v.row # {}

\* The outcome of a comparison: "T" or "F" for a bool, "S" for a pandas Series
\* of bools (a row compared element-wise), "X" for a raised exception
\* (comparing two rows whose labels differ).
Ordered(holds, left, right) ==
    IF IsRow(left) /\ IsRow(right) /\ left.row # right.row THEN "X"
    ELSE IF IsRow(left) \/ IsRow(right) THEN "S"
    ELSE IF holds THEN "T" ELSE "F"

\* lines 452-463
Compare(operator, left_current, right_value) ==
    CASE operator = "GT" ->
           Ordered(RGt(left_current.num, right_value.num), left_current, right_value)
      [] operator = "GTE" ->
           Ordered(RGe(left_current.num, right_value.num), left_current, right_value)
      [] operator = "LT" ->
           Ordered(RLt(left_current.num, right_value.num), left_current, right_value)
      [] operator = "LTE" ->
           Ordered(RLe(left_current.num, right_value.num), left_current, right_value)
      [] operator = "EQ" ->
           IF IsRow(left_current) \/ IsRow(right_value) THEN "S"
           ELSE IF REq(left_current.num, right_value.num) THEN "T" ELSE "F"
      [] OTHER -> "F"

\* a and b, where bool() of a Series raises ValueError
AndThen(a, b) ==
    IF a \in {"X", "S"} THEN "X"
    ELSE IF a = "F" THEN "F"
    ELSE b

\* lines 434-444
Cross(operator, left_prev, right_prev, left_current, right_current) ==
    IF operator = "CROSS_UP"
    THEN AndThen(Ordered(RLe(left_prev.num, right_prev.num), left_prev, right_prev),
                 Ordered(RGt(left_current.num, right_current.num),
                         left_current, right_current))
    ELSE AndThen(Ordered(RGe(left_prev.num, right_prev.num), left_prev, right_prev),
                 Ordered(RLt(left_current.num, right_current.num),
                         left_current, right_current))

OutOfRangeNoHistoryCheck(left_values, current_index) ==
    current_index >= SeriesLen(left_values)

\* line 416
OutOfRange(left_values, current_index) ==
    current_index >= SeriesLen(left_values) \/ current_index < 1

\* the body of the try block: "T", "F", "S" (a Series is returned) or "X"
SingleConditionBody(condition, indicators, current_index) ==
    IF ~Has(condition, "leftIndicator") \/ ~Has(condition, "operator") THEN "X"
    ELSE
    LET left_key == get_indicator_key(condition.leftIndicator)
        operator == condition.operator
    IN  IF left_key \notin DOMAIN indicators THEN "F"
        ELSE
        LET left_values == indicators[left_key]
        IN  IF OutOfRange(left_values, current_index) THEN "F"
            ELSE
            LET left_current == ILoc(left_values, current_index)
            IN  IF Has(condition, "rightIndicator")
                THEN LET right_key == get_indicator_key(condition.rightIndicator)
                     IN  IF right_key \notin DOMAIN indicators THEN "F"
                         ELSE
                         LET right_values == indicators[right_key]
                         IN  IF current_index >= SeriesLen(right_values) THEN "F"
                             ELSE IF operator \in {"CROSS_UP", "CROSS_DOWN"}
                             THEN Cross(operator,
                                        ILoc(left_values, current_index - 1),
                                        ILoc(right_values, current_index - 1),
                                        left_current,
                                        ILoc(right_values, current_index))
                             ELSE Compare(operator, left_current,
                                          ILoc(right_values, current_index))
                ELSE Compare(operator, left_current,
                             Literal(Get(condition, "value", 0)))

\* except Exception: return False
evaluate_single_condition(condition, indicators, current_index) ==
    LET r == SingleConditionBody(condition, indicators, current_index)
    IN  IF r = "X" THEN "F" ELSE r

\* all(results) / any(results): bool() of a Series raises ValueError ("X")
RECURSIVE AllOf(_)
AllOf(results) ==
    IF results = <<>> THEN "T"
    ELSE IF Head(results) = "S" THEN "X"
    ELSE IF Head(results) = "F" THEN "F"
    ELSE AllOf(Tail(results))

RECURSIVE AnyOf(_)
AnyOf(results) ==
    IF results = <<>> THEN "F"
    ELSE IF Head(results) = "S" THEN "X"
    ELSE IF Head(results) = "T" THEN "T"
    ELSE AnyOf(Tail(results))

\* "T", "F" or "X" (the exception leaves _evaluate_condition_group)
evaluate_condition_group(group, indicators, current_index) ==
    LET conditions == group.conditions
        results == [n \in 1..Len(conditions) |->
                      evaluate_single_condition(conditions[n], indicators, current_index)]
    IN  IF group.operator = "AND" THEN AllOf(results)
        ELSE IF group.operator = "OR" THEN AnyOf(results)
        ELSE "F"

\* _check_buy_signals and _check_sell_signals: the groups are OR'd
RECURSIVE check_signals(_, _, _)
check_signals(groups, indicators, current_index) ==
    IF groups = <<>> THEN "F"
    ELSE LET g == evaluate_condition_group(Head(groups), indicators, current_index)
         IN  IF g \in {"T", "X"} THEN g
             ELSE check_signals(Tail(groups), indicators, current_index)

check_buy_signals(buy_conditions, indicators, current_index) ==
    check_signals(buy_conditions, indicators, current_index)

check_sell_signals(sell_conditions, indicators, current_index) ==
    check_signals(sell_conditions, indicators, current_index)

----------------------------------------------------------------------------
(* Inputs: strategies, configs and bar sequences *)

Dates == 1..MaxDays

Prices == 1..MaxPrice

Range(seq) == {seq[n] : n \in DOMAIN seq}

Without(rec, field) == [f \in DOMAIN rec \ {field} |-> rec[f]]

RECURSIVE SortedSeq(_)
SortedSeq(set) ==
    IF set = {} THEN <<>>
    ELSE LET m == CHOOSE x \in set : \A y \in set : x <= y
         IN  <<m>> \o SortedSeq(set \ {m})

\* the bars of one symbol: dates ascending, at most one bar per date
Bars(dates, closes) ==
    LET ds == SortedSeq(dates)
    IN  [t \in 1..Len(ds) |-> [date |-> ds[t], close |-> closes[ds[t]], volume |-> 100]]

\* the primary symbol has a bar on at least one date
PrimaryBarSeqs ==
    {Bars(dates, closes) : dates \in SUBSET Dates \ {{}}, closes \in [Dates -> Prices]}

\* a bar on every date
FullBarSeqs == {Bars(Dates, closes) : closes \in [Dates -> Prices]}

\* another symbol may lack bars on any dates; its close is the same on all
OtherBarSeqs ==
    {Bars(dates, [d \in Dates |-> close]) : dates \in SUBSET Dates, close \in Prices}

Price == [type |-> "PRICE"]

Sma2 == [type |-> "SMA", period |-> 2]

Macd == [type |-> "MACD", fastPeriod |-> 1, slowPeriod |-> 2, signalPeriod |-> 1]

Boll == [type |-> "BB", period |-> 2, stdDev |-> 2]

Boll3 == [type |-> "BB", period |-> 3, stdDev |-> 2]

Stoch(k_period) == [type |-> "STOCH", kPeriod |-> k_period, dPeriod |-> 1]

Atr == [type |-> "ATR", period |-> 2]

Lit(left, operator, value) ==
    [leftIndicator |-> left, operator |-> operator, value |-> value]

Rel(left, operator, right) ==
    [leftIndicator |-> left, operator |-> operator, rightIndicator |-> right]

Group(operator, conditions) == [operator |-> operator, conditions |-> conditions]

SellLow == <<Group("AND", <<Lit(Price, "LT", 2)>>)>>

\* <<buyConditions, sellConditions>> of well-formed strategies
PlainRules ==
    { <<<<Group("AND", <<Lit(Price, "GT", 1)>>)>>, SellLow>>,
      <<<<Group("OR", <<Lit(Price, "GTE", 1)>>)>>,
        <<Group("OR", <<Lit(Price, "LTE", 2)>>)>>>> }

OtherRules ==
    { <<<<Group("AND", <<Rel(Price, "CROSS_UP", Sma2)>>)>>,
        <<Group("OR", <<Rel(Price, "CROSS_DOWN", Sma2), Lit(Price, "EQ", 1)>>)>>>>,
      <<<<Group("AND", <<>>)>>, SellLow>>,
      <<<<Group("OR", <<>>), Group("XOR", <<Lit(Price, "GT", 0)>>)>>, SellLow>>,
      <<<<Group("AND", <<Lit(Price, "CROSS_UP", 1)>>)>>, SellLow>>,
      <<<<Group("AND", <<Lit(Macd, "GT", 0)>>)>>, SellLow>>,
      <<<<Group("OR", <<Lit(Price, "GT", 1), Lit(Boll, "EQ", 1)>>)>>, SellLow>>,
      <<<<Group("OR", <<Rel(Macd, "CROSS_UP", Boll), Rel(Macd, "LT", Boll),
                        Lit(Price, "GT", 1)>>)>>,
        SellLow>>,
      <<<<Group("OR", <<Rel(Stoch(14), "CROSS_UP", Stoch(5)), Lit(Price, "GT", 1)>>)>>,
        <<Group("AND", <<Lit(Price, "LT", 2), Lit(Stoch(5), "LT", 20)>>)>>>>,
      <<<<Group("OR", <<Lit(Price, "XX", 1), Without(Lit(Price, "GT", 0), "operator"),
                        Lit(Price, "GT", 1)>>)>>,
        SellLow>>,
      <<<<Group("OR", <<Without(Lit(Price, "GT", 1), "leftIndicator")>>)>>, SellLow>>,
      <<<<Group("AND", <<Lit(Atr, "GT", 1)>>)>>, SellLow>>,
      <<<<Group("AND", <<Lit(Price, "GT", 1)>>)>>,
        <<Group("AND", <<Rel(Price, "LT", Atr)>>)>>>>,
      <<<<Group("XOR", <<Lit(Price, "GT", 0)>>),
          Group("AND", <<Lit(Price, "GTE", 2), Lit(Price, "LTE", 2)>>)>>,
        <<Group("AND", <<Lit(Price, "LT", 2), Lit(Price, "GT", 2)>>),
          Group("OR", <<Lit(Price, "GT", 2), Lit(Price, "LT", 2)>>)>>>>,
      <<<<Group("OR", <<Lit(Boll, "EQ", 1), Lit(Price, "GT", 0)>>)>>, SellLow>> }

Strat(symbols, rules) ==
    [id |-> "s1", name |-> "strategy", symbols |-> symbols,
     buyConditions |-> rules[1], sellConditions |-> rules[2]]

WithRisk(strat, riskManagement) ==
    [f \in DOMAIN strat \cup {"riskManagement"} |->
        IF f = "riskManagement" THEN riskManagement ELSE strat[f]]

RiskSettings == {[maxPosition |-> 50], [maxPositionPct |-> 50], [maxPosition |-> 0]}

Strategies ==
    {Strat(<<"A">>, rules) : rules \in PlainRules \cup OtherRules}
    \cup {WithRisk(Strat(<<"A">>, rules), riskManagement) :
             rules \in PlainRules, riskManagement \in RiskSettings}

TwoSymbolStrategies ==
    {Strat(<<"A", "B">>, rules) : rules \in PlainRules}
    \cup {WithRisk(Strat(<<"A", "B">>, rules), [maxPosition |-> 50]) :
             rules \in PlainRules}

RequiredStrategyFields == {"id", "name", "symbols", "buyConditions", "sellConditions"}

RequiredConfigFields ==
    {"startDate", "endDate", "initialCapital", "commission", "slippage"}

BaseStrategy == Strat(<<"A">>, <<<<Group("AND", <<Lit(Price, "GT", 1)>>)>>, SellLow>>)

IncompleteStrategies == {Without(BaseStrategy, f) : f \in RequiredStrategyFields}

Config(startDate, endDate, initialCapital, commission, slippage) ==
    [startDate |-> startDate, endDate |-> endDate, initialCapital |-> initialCapital,
     commission |-> commission, slippage |-> slippage]

\* commission and slippage are percentages
ValidConfigs ==
    {Config(1, MaxDays, initialCapital, commission, slippage) :
        initialCapital \in {3, 10}, commission \in {0, 10}, slippage \in {0, 10}}

BaseConfig == Config(1, MaxDays, 10, 10, 10)

TwoSymbolConfigs == {BaseConfig, Config(1, MaxDays, 10, 0, 0)}

InvalidConfigs ==
    {Without(BaseConfig, f) : f \in RequiredConfigFields}
    \cup {Config(MaxDays, MaxDays, 10, 10, 10), Config(MaxDays, 1, 10, 10, 10),
          Config(1, MaxDays, 0, 10, 10), Config(1, MaxDays, -10, 10, 10)}

----------------------------------------------------------------------------
(* engine.py: run_backtest *)

NoEval == [cond |-> <<>>, ind |-> <<>>, index |-> 0, result |-> "-"]

EvIdle ==
    /\ evCond = NoEval.cond
    /\ evInd = NoEval.ind
    /\ evIndex = NoEval.index
    /\ evResult = NoEval.result

\* run_backtest has been called and nothing has run yet
InitRun ==
    /\ pc = "start"
    /\ market_data = <<>>
    /\ indicators_data = <<>>
    /\ i = 0
    /\ sym_pos = 0
    /\ cash = 0
    /\ positions = <<>>
    /\ trades = <<>>
    /\ daily_returns = <<>>
    /\ notified = <<>>
    /\ error = ""
    /\ EvIdle

\* a progress sink that returns when it is awaited
Returns == "returns"

\* no bot is registered and the PositionManager is unused
NoTrading ==
    /\ bots = <<>>
    /\ loops = <<>>
    /\ job = [running |-> FALSE, rest |-> <<>>]
    /\ clock = [day |-> 1, weekend |-> FALSE, time |-> "morning"]
    /\ halted = {}
    /\ manager = <<>>
    /\ returned = "-"

\* one call on an engine that ran nothing before and runs nothing else
SingleCall ==
    /\ sink = Returns
    /\ previous = <<>>
    /\ suspended = <<>>
    /\ NoTrading

Init ==
    /\ \/ /\ strategy \in Strategies
          /\ \/ config \in ValidConfigs /\ progress_callback = TRUE
             \/ config = BaseConfig /\ progress_callback = FALSE
       \/ /\ strategy \in TwoSymbolStrategies
          /\ config \in TwoSymbolConfigs
          /\ progress_callback = TRUE
       \/ /\ strategy \in IncompleteStrategies
          /\ config \in {BaseConfig} \cup InvalidConfigs
          /\ progress_callback \in BOOLEAN
       \/ /\ strategy = BaseStrategy
          /\ config \in InvalidConfigs
          /\ progress_callback \in BOOLEAN
    /\ InitRun
    /\ SingleCall

ValidateNoCapitalCheck(strat, conf) ==
    IF \E field \in RequiredStrategyFields : ~Has(strat, field) THEN "ValueError"
    ELSE IF \E field \in RequiredConfigFields : ~Has(conf, field) THEN "ValueError"
    ELSE IF conf.startDate >= conf.endDate THEN "ValueError"
    ELSE ""

\* the first check that fails, "" if none
validate_inputs(strat, conf) ==
    IF \E field \in RequiredStrategyFields : ~Has(strat, field) THEN "ValueError"
    ELSE IF \E field \in RequiredConfigFields : ~Has(conf, field) THEN "ValueError"
    ELSE IF conf.startDate >= conf.endDate THEN "ValueError"
    ELSE IF conf.initialCapital <= 0 THEN "ValueError"
    ELSE ""

\* line 51
Validate ==
    /\ pc = "start"
    /\ LET raised == validate_inputs(strategy, config)
       IN  /\ error' = raised
           /\ pc' = IF raised = "" THEN "validated" ELSE "raised"
    /\ UNCHANGED <<strategy, config, progress_callback, market_data, indicators_data,
                   i, sym_pos, cash, positions, trades, daily_returns, notified>>
    /\ UNCHANGED evVars
    /\ UNCHANGED callVars

\* lines 54-58: one bar sequence per symbol; next to other symbols the
\* primary one has a bar on every date.  The generator is seeded anew for
\* every symbol (line 107), so a request made before gives the same bars.
LoadMarketData ==
    /\ pc = "validated"
    /\ IF strategy.id \in DOMAIN previous
       THEN market_data' = previous[strategy.id].market_data
       ELSE \E primary \in IF Len(strategy.symbols) > 1 THEN FullBarSeqs
                           ELSE PrimaryBarSeqs :
              \E others \in [Range(strategy.symbols) \ {strategy.symbols[1]}
                               -> OtherBarSeqs] :
                market_data' = (strategy.symbols[1] :> primary) @@ others
    /\ pc' = "loaded"
    /\ UNCHANGED <<strategy, config, progress_callback, indicators_data,
                   i, sym_pos, cash, positions, trades, daily_returns, notified, error>>
    /\ UNCHANGED evVars
    /\ UNCHANGED callVars

\* line 61
CalculateIndicators ==
    /\ pc = "loaded"
    /\ LET computed == [symbol \in DOMAIN market_data |->
                           SymbolIndicators(strategy, market_data[symbol])]
           failed == {symbol \in DOMAIN market_data : computed[symbol].error # ""}
       IN  IF failed = {}
           THEN /\ indicators_data' = [symbol \in DOMAIN market_data |->
                                         computed[symbol].cache]
                /\ pc' = "calculated"
                /\ error' = ""
           ELSE /\ indicators_data' = indicators_data
                /\ pc' = "raised"
                /\ error' = computed[CHOOSE symbol \in failed : TRUE].error
    /\ UNCHANGED <<strategy, config, progress_callback, market_data,
                   i, sym_pos, cash, positions, trades, daily_returns, notified>>
    /\ UNCHANGED evVars
    /\ UNCHANGED callVars

primary_symbol == strategy.symbols[1]

total_days == Len(market_data[primary_symbol])

current_date == market_data[primary_symbol][i + 1].date

StartExecuteKeepingLedger ==
    /\ pc = "calculated"
    /\ cash' = config.initialCapital * MoneyScale
    /\ positions' = <<>>
    /\ trades' = trades
    /\ daily_returns' = <<>>
    /\ i' = 0
    /\ sym_pos' = 0
    /\ pc' = "day"
    /\ UNCHANGED <<strategy, config, progress_callback, market_data, indicators_data,
                   notified, error>>
    /\ UNCHANGED evVars
    /\ UNCHANGED callVars

\* lines 224-238
StartExecute ==
    /\ pc = "calculated"
    /\ cash' = config.initialCapital * MoneyScale
    /\ positions' = <<>>
    /\ trades' = <<>>
    /\ daily_returns' = <<>>
    /\ i' = 0
    /\ sym_pos' = 0
    /\ pc' = "day"
    /\ UNCHANGED <<strategy, config, progress_callback, market_data, indicators_data,
                   notified, error>>
    /\ UNCHANGED evVars
    /\ UNCHANGED callVars

\* lines 240-250: the next primary bar and its progress notification; an
\* exception of the awaited sink leaves run_backtest (lines 69-71)
Notify ==
    /\ pc = "day"
    /\ i < total_days
    /\ notified' = IF progress_callback
                   THEN Append(notified, [index |-> i, currentDate |-> current_date])
                   ELSE notified
    /\ IF progress_callback /\ sink # Returns
       THEN /\ pc' = "raised"
            /\ error' = "SinkError"
            /\ sym_pos' = sym_pos
       ELSE /\ pc' = "symbols"
            /\ error' = error
            /\ sym_pos' = 1
    /\ UNCHANGED <<strategy, config, progress_callback, market_data, indicators_data,
                   i, cash, positions, trades, daily_returns>>
    /\ UNCHANGED evVars
    /\ UNCHANGED callVars

RowsOnOrBefore(symbol_data, date) ==
    {t \in DOMAIN symbol_data : symbol_data[t].date <= date}

\* symbol_data[symbol_data['date'] == current_date]: positions of the matching bars
RowsOn(symbol_data, date) == {t \in DOMAIN symbol_data : symbol_data[t].date = date}

FirstRow(symbol_data, date) ==
    symbol_data[CHOOSE t \in RowsOn(symbol_data, date) :
                    \A u \in RowsOn(symbol_data, date) : t <= u]

commission == config.commission

slippage == config.slippage

\* strategy.get('riskManagement', {}).get('maxPosition', 100)
max_position ==
    IF Has(strategy, "riskManagement")
    THEN Get(strategy.riskManagement, "maxPosition", 100)
    ELSE 100

\* prices of trades are stored multiplied by 100: close * (100 +- slippage)
BuyPrice(current_price) == current_price * (100 + slippage)

SellPrice(current_price) == current_price * (100 - slippage)

\* int(cash / buy_price)
MaxShares(current_price) == IntDiv(cash, 100 * BuyPrice(current_price))

\* int((initial_capital * max_position / 100) / buy_price)
PositionLimit(current_price) ==
    IntDiv(config.initialCapital * max_position, BuyPrice(current_price))

SharesUncapped(current_price) == MaxShares(current_price)

SharesOneMore(current_price) ==
    Min(MaxShares(current_price), PositionLimit(current_price)) + 1

Shares(current_price) == Min(MaxShares(current_price), PositionLimit(current_price))

TotalCostWithoutCommission(shares, current_price) ==
    shares * BuyPrice(current_price) * 100

\* shares * buy_price * (1 + commission_rate), times MoneyScale
TotalCost(shares, current_price) == shares * BuyPrice(current_price) * (100 + commission)

\* shares * sell_price * (1 - commission_rate), times MoneyScale
TotalReceived(shares, current_price) ==
    shares * SellPrice(current_price) * (100 - commission)

BuyAllowedNoCostCheck(shares, current_price) == shares > 0

BuyAllowedBelowCash(shares, current_price) ==
    shares > 0 /\ TotalCost(shares, current_price) < cash

\* lines 280 and 283
BuyAllowed(shares, current_price) ==
    shares > 0 /\ TotalCost(shares, current_price) <= cash

Held(symbol) == IF symbol \in DOMAIN positions THEN positions[symbol] ELSE 0

IsFlatAlways(symbol) == TRUE

\* line 269
IsFlat(symbol) == symbol \notin DOMAIN positions \/ positions[symbol] = 0

SellSharesOne(symbol) == 1

\* line 301
SellShares(symbol) == positions[symbol]

\* line 326
QuantityAfterSell == 0

RECURSIVE LastBuyAnySymbol(_, _)
LastBuyAnySymbol(ledger, symbol) ==
    IF ledger = <<>> THEN <<>>
    ELSE LET t == ledger[Len(ledger)]
         IN  IF t.type = "BUY" THEN <<t>>
             ELSE LastBuyAnySymbol(SubSeq(ledger, 1, Len(ledger) - 1), symbol)

\* next(t for t in reversed(trades) if symbol and BUY), <<>> for None
RECURSIVE LastBuy(_, _)
LastBuy(ledger, symbol) ==
    IF ledger = <<>> THEN <<>>
    ELSE LET t == ledger[Len(ledger)]
         IN  IF t.symbol = symbol /\ t.type = "BUY" THEN <<t>>
             ELSE LastBuy(SubSeq(ledger, 1, Len(ledger) - 1), symbol)

BuyTrade(symbol, shares, current_price) ==
    [id |-> Len(trades) + 1, symbol |-> symbol, type |-> "BUY", quantity |-> shares,
     price |-> BuyPrice(current_price), timestamp |-> current_date]

SellTrade(symbol, shares, current_price) ==
    LET buy_trade == LastBuy(trades, symbol)
        total_received == TotalReceived(shares, current_price)
    IN  [id |-> Len(trades) + 1, symbol |-> symbol, type |-> "SELL",
         quantity |-> shares, price |-> SellPrice(current_price),
         timestamp |-> current_date,
         pnl |-> IF buy_trade = <<>> THEN 0
                 ELSE total_received
                        - shares * buy_trade[1].price * (100 + commission),
         holdingPeriod |-> IF buy_trade = <<>> THEN 0
                           ELSE current_date - buy_trade[1].timestamp]

\* lines 253-326 for one symbol of the inner loop
ProcessSymbol ==
    /\ pc = "symbols"
    /\ sym_pos <= Len(strategy.symbols)
    /\ LET symbol == strategy.symbols[sym_pos]
           skipped == \/ symbol \notin DOMAIN market_data
                      \/ RowsOn(market_data[symbol], current_date) = {}
           current_price == FirstRow(market_data[symbol], current_date).close
           flat == IsFlat(symbol)
           signal == IF skipped THEN "F"
                     ELSE IF flat
                     THEN check_buy_signals(strategy.buyConditions,
                                            indicators_data[symbol], i)
                     ELSE IF Held(symbol) > 0
                     THEN check_sell_signals(strategy.sellConditions,
                                             indicators_data[symbol], i)
                     ELSE "F"
           shares == IF flat THEN Shares(current_price) ELSE SellShares(symbol)
       IN  IF signal = "X"
           THEN /\ pc' = "raised"
                /\ error' = "ValueError"
                /\ UNCHANGED <<sym_pos, cash, positions, trades>>
           ELSE /\ pc' = pc
                /\ error' = error
                /\ sym_pos' = sym_pos + 1
                /\ IF signal = "T" /\ flat /\ BuyAllowed(shares, current_price)
                   THEN /\ trades' = Append(trades, BuyTrade(symbol, shares, current_price))
                        /\ cash' = cash - TotalCost(shares, current_price)
                        /\ positions' = (symbol :> shares) @@ positions
                   ELSE IF signal = "T" /\ ~flat
                   THEN /\ trades' = Append(trades, SellTrade(symbol, shares, current_price))
                        /\ cash' = cash + TotalReceived(shares, current_price)
                        /\ positions' = (symbol :> QuantityAfterSell) @@ positions
                   ELSE UNCHANGED <<cash, positions, trades>>
    /\ UNCHANGED <<strategy, config, progress_callback, market_data, indicators_data,
                   i, daily_returns, notified>>
    /\ UNCHANGED evVars
    /\ UNCHANGED callVars

PortfolioValueCashOnly == cash

\* lines 329-336, times MoneyScale
PortfolioValue ==
    LET open == {symbol \in DOMAIN positions :
                    /\ positions[symbol] > 0
                    /\ symbol \in DOMAIN market_data
                    /\ RowsOn(market_data[symbol], current_date) # {}}
        worth(symbol) == positions[symbol]
                           * FirstRow(market_data[symbol], current_date).close
                           * MoneyScale
        total[set \in SUBSET open] ==
            IF set = {} THEN 0
            ELSE LET symbol == CHOOSE x \in set : TRUE
                 IN  worth(symbol) + total[set \ {symbol}]
    IN  cash + total[open]

\* line 340: the previous snapshot's value (Decimal(str(x)) of the float x
\* stored there is x again for an amount of at most 15 significant digits)
prev_value == daily_returns[Len(daily_returns)].portfolioValue

HasPrevious == i > 0 /\ daily_returns # <<>>

\* lines 338-341, in percent
daily_return ==
    IF HasPrevious
    THEN Reduce(Rat((PortfolioValue - prev_value) * 100, prev_value))
    ELSE Rat(0, 1)

\* line 343, in percent
cumulative_return ==
    Reduce(Rat((PortfolioValue - config.initialCapital * MoneyScale) * 100,
               config.initialCapital * MoneyScale))

\* lines 345-350
EquitySnapshot ==
    [date |-> current_date, portfolioValue |-> PortfolioValue,
     dailyReturn |-> daily_return, cumulativeReturn |-> cumulative_return]

SnapshotStopsWhenDepleted ==
    /\ pc = "symbols"
    /\ sym_pos > Len(strategy.symbols)
    /\ IF cash = 0
       THEN /\ pc' = "done"
            /\ UNCHANGED <<daily_returns, i>>
       ELSE /\ daily_returns' = Append(daily_returns, EquitySnapshot)
            /\ i' = i + 1
            /\ pc' = "day"
    /\ UNCHANGED <<strategy, config, progress_callback, market_data, indicators_data,
                   sym_pos, cash, positions, trades, notified, error>>
    /\ UNCHANGED evVars
    /\ UNCHANGED callVars

\* lines 328-350: the day's EquitySnapshot; the Decimal division of line 341
\* raises when the previous value is 0
Snapshot ==
    /\ pc = "symbols"
    /\ sym_pos > Len(strategy.symbols)
    /\ IF HasPrevious /\ prev_value = 0
       THEN /\ pc' = "raised"
            /\ error' = "DivisionByZero"
            /\ UNCHANGED <<daily_returns, i>>
       ELSE /\ daily_returns' = Append(daily_returns, EquitySnapshot)
            /\ i' = i + 1
            /\ pc' = "day"
            /\ error' = error
    /\ UNCHANGED <<strategy, config, progress_callback, market_data, indicators_data,
                   sym_pos, cash, positions, trades, notified>>
    /\ UNCHANGED evVars
    /\ UNCHANGED callVars

----------------------------------------------------------------------------
(* metrics.py: the metrics of a finished run.  portfolioValue and            *)
(* initial_capital are floats there; the quotients are kept as rationals.   *)

TotalReturnGross(final_value, initial_capital) ==
    Rat(final_value * 100, initial_capital * MoneyScale)

\* (final_value / initial_capital - 1) * 100
total_return(final_value, initial_capital) ==
    Rat((final_value - initial_capital * MoneyScale) * 100,
        initial_capital * MoneyScale)

\* a / b > c / d for a, c >= 0 and b, d > 0, by whole parts and then the
\* reciprocals of the remainders (no product of the four is formed)
RECURSIVE QuotientGreater(_, _, _, _)
QuotientGreater(a, b, c, d) ==
    IF a \div b # c \div d THEN a \div b > c \div d
    ELSE IF a % b = 0 THEN FALSE
    ELSE IF c % d = 0 THEN TRUE
    ELSE QuotientGreater(d, c % d, b, a % b)

\* the loop of _calculate_max_drawdown from entry t on; a peak of 0 makes the
\* division raise ZeroDivisionError (NaN here)
RECURSIVE DrawdownFrom(_, _, _, _)
DrawdownFrom(portfolio_values, t, peak, max_drawdown) ==
    IF t > Len(portfolio_values) THEN max_drawdown
    ELSE LET value == portfolio_values[t]
             top == IF value > peak THEN value ELSE peak
             drawdown == Rat((top - value) * 100, top)
         IN  IF top = 0 THEN NaN
             ELSE DrawdownFrom(portfolio_values, t + 1, top,
                               IF QuotientGreater(drawdown[1], drawdown[2],
                                                  max_drawdown[1], max_drawdown[2])
                               THEN drawdown
                               ELSE max_drawdown)

calculate_max_drawdown(returns) ==
    IF returns = <<>> THEN Rat(0, 1)
    ELSE LET portfolio_values == [t \in DOMAIN returns |-> returns[t].portfolioValue]
         IN  DrawdownFrom(portfolio_values, 1, portfolio_values[1], Rat(0, 1))

\* A float that is not a quotient of the inputs is kept as the expression
\* that gives it: Number(r) is the rational r (NaN for nan).
Number(r) == [kind |-> "number", value |-> r]

\* base ** exponent is beyond the largest float (about 2 ** 1024, and
\* 16.72 ** 252 is about that): Python raises OverflowError
PowerOverflows(base, trading_days) ==
    /\ trading_days <= 7
    /\ base[1] \div base[2] >= 17 ^ trading_days

\* ((final_value / initial_capital) ** (252 / trading_days) - 1) * 100
annualized_return(final_value, initial_capital, trading_days) ==
    LET base == Reduce(Rat(final_value, initial_capital * MoneyScale))
    IN  IF base = Rat(1, 1) THEN Number(Rat(0, 1))
        ELSE IF base = Rat(0, 1) THEN Number(Rat(-100, 1))
        ELSE [kind |-> "power", base |-> base, exponent |-> Rat(252, trading_days)]

\* np.std(returns, ddof=1) * np.sqrt(252) * 100: the sum of squares is
\* divided by len(returns) - 1, which gives nan for one return; it is 0
\* when all returns are the same (exact arithmetic)
calculate_volatility(returns) ==
    IF Len(returns) < 2 THEN Number(Rat(0, 1))
    ELSE LET rs == [t \in 1..(Len(returns) - 1) |-> returns[t + 1].dailyReturn]
         IN  IF Len(rs) = 1 THEN Number(NaN)
             ELSE IF \A t \in DOMAIN rs : rs[t] = rs[1] THEN Number(Rat(0, 1))
             ELSE [kind |-> "std", of |-> rs]

\* (annualized_return - 3.0) / volatility; nan when the volatility is nan
calculate_sharpe_ratio(returns, annualized, volatility) ==
    IF volatility = Number(Rat(0, 1)) THEN Number(Rat(0, 1))
    ELSE IF volatility = Number(NaN) \/ annualized = Number(NaN) THEN Number(NaN)
    ELSE [kind |-> "excess", of |-> annualized, by |-> volatility]

IsSell(t) == t.type = "SELL" /\ Has(t, "pnl")

IsWin(t) == IsSell(t) /\ t.pnl > 0

IsLoss(t) == IsSell(t) /\ t.pnl < 0

RECURSIVE SumPnl(_)
SumPnl(ledger) ==
    IF ledger = <<>> THEN 0 ELSE Abs(Head(ledger).pnl) + SumPnl(Tail(ledger))

WinRateOverAllTrades(ledger) ==
    Reduce(Rat(Len(SelectSeq(ledger, IsWin)) * 100, Len(ledger)))

\* (len(winning_trades) / len(sell_trades)) * 100
WinRate(ledger) ==
    Reduce(Rat(Len(SelectSeq(ledger, IsWin)) * 100, Len(SelectSeq(ledger, IsSell))))

\* (total / len(chosen)) / initial_capital * 100 for the winning or losing trades
Average(chosen, initial_capital) ==
    IF chosen = <<>> THEN Rat(0, 1)
    ELSE Reduce(Rat(SumPnl(chosen) * 100, Len(chosen) * initial_capital * MoneyScale))

\* totalTrades of _calculate_trade_statistics
total_trades(ledger) == Len(ledger)

\* _calculate_trade_statistics
calculate_trade_statistics(ledger, initial_capital) ==
    IF ledger = <<>> \/ SelectSeq(ledger, IsSell) = <<>>
    THEN [totalTrades |-> total_trades(ledger), winRate |-> Rat(0, 1),
          avgProfit |-> Rat(0, 1), avgLoss |-> Rat(0, 1)]
    ELSE [totalTrades |-> total_trades(ledger),
          winRate |-> WinRate(ledger),
          avgProfit |-> Average(SelectSeq(ledger, IsWin), initial_capital),
          avgLoss |-> Average(SelectSeq(ledger, IsLoss), initial_capital)]

get_empty_metrics ==
    [totalReturn |-> Rat(0, 1), annualizedReturn |-> Number(Rat(0, 1)),
     volatility |-> Number(Rat(0, 1)), sharpeRatio |-> Number(Rat(0, 1)),
     maxDrawdown |-> Rat(0, 1), totalTrades |-> 0, winRate |-> Rat(0, 1),
     avgProfit |-> Rat(0, 1), avgLoss |-> Rat(0, 1)]

MetricsErrorWithoutEmptyCheck(returns, ledger, initial_capital) ==
    IF returns = <<>> THEN "IndexError"
    ELSE IF initial_capital = 0 THEN "ZeroDivisionError"
    ELSE IF calculate_max_drawdown(returns) = NaN THEN "ZeroDivisionError"
    ELSE ""

\* the exception that leaves calculate_metrics, "" when it returns: the
\* divisions of lines 33 and 142 and the power of line 38
metrics_error(returns, ledger, initial_capital) ==
    IF returns = <<>> THEN ""
    ELSE IF initial_capital = 0 THEN "ZeroDivisionError"
    ELSE IF PowerOverflows(Rat(returns[Len(returns)].portfolioValue,
                               initial_capital * MoneyScale), Len(returns))
    THEN "OverflowError"
    ELSE IF calculate_max_drawdown(returns) = NaN THEN "ZeroDivisionError"
    ELSE ""

\* calculate_metrics when it returns
calculate_metrics(returns, ledger, initial_capital) ==
    IF returns = <<>> THEN get_empty_metrics
    ELSE LET final_value == returns[Len(returns)].portfolioValue
             annualized == annualized_return(final_value, initial_capital, Len(returns))
             volatility == calculate_volatility(returns)
             trade_stats == calculate_trade_statistics(ledger, initial_capital)
         IN  [totalReturn |-> total_return(final_value, initial_capital),
              annualizedReturn |-> annualized,
              volatility |-> volatility,
              sharpeRatio |-> calculate_sharpe_ratio(returns, annualized, volatility),
              maxDrawdown |-> calculate_max_drawdown(returns),
              totalTrades |-> trade_stats.totalTrades,
              winRate |-> trade_stats.winRate,
              avgProfit |-> trade_stats.avgProfit,
              avgLoss |-> trade_stats.avgLoss]

----------------------------------------------------------------------------
(* engine.py: the end of run_backtest *)

\* lines 353-355
performance_metrics == calculate_metrics(daily_returns, trades, config.initialCapital)

\* lines 352-369 and 66-67: the result is returned
Finish ==
    /\ pc = "day"
    /\ i >= total_days
    /\ error' = metrics_error(daily_returns, trades, config.initialCapital)
    /\ pc' = IF error' = "" THEN "done" ELSE "raised"
    /\ UNCHANGED <<strategy, config, progress_callback, market_data, indicators_data,
                   i, sym_pos, cash, positions, trades, daily_returns, notified>>
    /\ UNCHANGED evVars
    /\ UNCHANGED callVars

Next ==
    \/ Validate
    \/ LoadMarketData
    \/ CalculateIndicators
    \/ StartExecute
    \/ Notify
    \/ ProcessSymbol
    \/ Snapshot
    \/ Finish

Spec == Init /\ [][Next]_vars

\* Runs whose end is checked: run_backtest is one coroutine that the event
\* loop keeps running, so a step that is possible is eventually taken.
LiveStrategies ==
    {Strat(<<"A">>, rules) : rules \in PlainRules}
    \cup {Strat(<<"A">>, <<<<Group("AND", <<>>)>>, SellLow>>),
          Strat(<<"A">>, <<<<Group("AND", <<Lit(Macd, "GT", 0)>>)>>, SellLow>>)}

LiveConfigs == {BaseConfig, Config(1, MaxDays, 3, 0, 0)}

InitLive ==
    /\ strategy \in LiveStrategies
    /\ config \in LiveConfigs
    /\ progress_callback = TRUE
    /\ InitRun
    /\ SingleCall

FairSpec == InitLive /\ [][Next]_vars /\ WF_vars(Next)

----------------------------------------------------------------------------
(* run_backtest with commission and slippage from 0 up to above 100 percent *)
(* (_validate_inputs checks neither)                                        *)

RateStrategies ==
    {Strat(<<"A">>, rules) : rules \in PlainRules}
    \cup {WithRisk(Strat(<<"A">>, rules), [maxPosition |-> 25]) : rules \in PlainRules}

Rates == {0, 10, 100, 300}

RateConfigs ==
    {Config(1, MaxDays, 16, commission_rate, slippage_rate) :
        commission_rate \in Rates, slippage_rate \in Rates}

InitRates ==
    /\ strategy \in RateStrategies
    /\ config \in RateConfigs
    /\ progress_callback = TRUE
    /\ InitRun
    /\ SingleCall

SpecRates == InitRates /\ [][Next]_vars

----------------------------------------------------------------------------
(* run_backtest called a second time on the same engine *)

\* what a call gives its caller: the result of lines 358-367 (the ledger, the
\* equity curve and the metrics) or the exception of lines 69-71
ResultOf(frame) ==
    IF frame.pc = "done"
    THEN [returned |-> TRUE, trades |-> frame.trades,
          dailyReturns |-> frame.daily_returns,
          metrics |-> calculate_metrics(frame.daily_returns, frame.trades,
                                        frame.config.initialCapital)]
    ELSE [returned |-> FALSE, error |-> frame.error]

\* the arguments and local variables of the running call
Locals ==
    [strategy |-> strategy, config |-> config, pc |-> pc,
     market_data |-> market_data, indicators_data |-> indicators_data,
     i |-> i, sym_pos |-> sym_pos, cash |-> cash, positions |-> positions,
     trades |-> trades, daily_returns |-> daily_returns, error |-> error]

Result == ResultOf(Locals)

Finished == pc \in {"done", "raised"}

\* an awaited sink returns, or raises (a closed connection, a callback that
\* is not a coroutine function)
Sinks == {Returns, "raises"}

AgainStrategies ==
    {Strat(<<"A">>, rules) : rules \in PlainRules}
    \cup {Strat(<<"A">>, <<<<Group("AND", <<Rel(Price, "CROSS_UP", Sma2)>>)>>,
                           <<Group("OR", <<Rel(Price, "CROSS_DOWN", Sma2),
                                           Lit(Price, "EQ", 1)>>)>>>>),
          Strat(<<"A">>, <<<<Group("AND", <<Lit(Macd, "GT", 0)>>)>>, SellLow>>)}

InitAgain ==
    /\ strategy \in AgainStrategies
    /\ config \in {BaseConfig, Config(1, MaxDays, 0, 10, 10)}
    /\ progress_callback \in BOOLEAN
    /\ InitRun
    /\ sink \in Sinks
    /\ previous = <<>>
    /\ suspended = <<>>
    /\ NoTrading

\* The first call is over; set_progress_callback may be called (lines 32-34)
\* and run_backtest is called with the same arguments.  The new call's local
\* variables hold nothing it may rely on before it assigns them.
RunAgain ==
    /\ Finished
    /\ suspended = <<>>
    /\ previous = <<>>
    /\ previous' = (strategy.id :> [result |-> Result, market_data |-> market_data,
                                    progress_callback |-> progress_callback])
    /\ progress_callback' \in BOOLEAN
    /\ pc' = "start"
    /\ UNCHANGED <<strategy, config, market_data, indicators_data, i, sym_pos,
                   cash, positions, trades, daily_returns, notified, error>>
    /\ UNCHANGED evVars
    /\ UNCHANGED <<sink, suspended, tradingVars>>

NextAgain == Next \/ RunAgain

SpecAgain == InitAgain /\ [][NextAgain]_vars

----------------------------------------------------------------------------
(* Two calls of run_backtest on one engine, as two coroutines of one event  *)
(* loop.  A call runs without interruption up to an await that suspends: *)
(* the await of the progress sink (line 246).  _load_market_data and       *)
(* _calculate_indicators await nothing.  Each call is first run alone.     *)

\* the frame of a call that has its market data and has not gone further
Coroutine(strat, conf, data) ==
    [strategy |-> strat, config |-> conf, pc |-> "loaded", market_data |-> data,
     indicators_data |-> <<>>, i |-> 0, sym_pos |-> 0, cash |-> 0,
     positions |-> <<>>, trades |-> <<>>, daily_returns |-> <<>>, error |-> ""]

ResumeSharingLedger(frame) ==
    /\ strategy' = frame.strategy
    /\ config' = frame.config
    /\ pc' = frame.pc
    /\ market_data' = frame.market_data
    /\ indicators_data' = frame.indicators_data
    /\ i' = frame.i
    /\ sym_pos' = frame.sym_pos
    /\ cash' = frame.cash
    /\ positions' = frame.positions
    /\ trades' = trades
    /\ daily_returns' = frame.daily_returns
    /\ error' = frame.error

\* the event loop resumes a coroutine: its arguments and local variables
\* are those of its own frame
Resume(frame) ==
    /\ strategy' = frame.strategy
    /\ config' = frame.config
    /\ pc' = frame.pc
    /\ market_data' = frame.market_data
    /\ indicators_data' = frame.indicators_data
    /\ i' = frame.i
    /\ sym_pos' = frame.sym_pos
    /\ cash' = frame.cash
    /\ positions' = frame.positions
    /\ trades' = frame.trades
    /\ daily_returns' = frame.daily_returns
    /\ error' = frame.error

\* bars on every date at one close
FlatBarSeqs == {Bars(Dates, [d \in Dates |-> close]) : close \in Prices}

PairFirst == {Strat(<<"A">>, rules) : rules \in PlainRules}

PairSecond ==
    [Strat(<<"A">>, <<<<Group("OR", <<Lit(Price, "GTE", 1)>>)>>,
                      <<Group("OR", <<Lit(Price, "LTE", 2)>>)>>>>)
       EXCEPT !.id = "s2"]

InitPair ==
    /\ strategy \in PairFirst
    /\ config = BaseConfig
    /\ progress_callback = TRUE
    /\ \E data \in FullBarSeqs : market_data = ("A" :> data)
    /\ pc = "loaded"
    /\ indicators_data = <<>>
    /\ i = 0
    /\ sym_pos = 0
    /\ cash = 0
    /\ positions = <<>>
    /\ trades = <<>>
    /\ daily_returns = <<>>
    /\ notified = <<>>
    /\ error = ""
    /\ EvIdle
    /\ sink = Returns
    /\ previous = <<>>
    /\ \E data \in FlatBarSeqs :
          suspended = Coroutine(PairSecond, Config(1, MaxDays, 3, 0, 0), ("A" :> data))
    /\ NoTrading

BothRanAlone == Cardinality(DOMAIN previous) = 2

\* a call run alone is over: its outcome is kept, the other call is run
\* alone or, when both were, the two calls are started again on their bars
FinishAlone ==
    /\ Finished
    /\ suspended # <<>>
    /\ strategy.id \notin DOMAIN previous
    /\ previous' = (strategy.id :> [result |-> Result, market_data |-> market_data,
                                    progress_callback |-> progress_callback])
                      @@ previous
    /\ Resume(suspended)
    /\ suspended' = Coroutine(strategy, config, market_data)
    /\ UNCHANGED <<progress_callback, notified, sink, tradingVars>>
    /\ UNCHANGED evVars

\* the running call has not started, waits for the sink or is over
AtAwait ==
    \/ pc = "loaded"
    \/ pc = "symbols" /\ sym_pos = 1 /\ progress_callback
    \/ Finished

\* the event loop runs the other call
Switch ==
    /\ BothRanAlone
    /\ AtAwait
    /\ suspended.pc \notin {"done", "raised"}
    /\ Resume(suspended)
    /\ suspended' = Locals
    /\ UNCHANGED <<progress_callback, notified, sink, previous, tradingVars>>
    /\ UNCHANGED evVars

NextPair ==
    \/ CalculateIndicators
    \/ StartExecute
    \/ Notify
    \/ ProcessSymbol
    \/ Snapshot
    \/ Finish
    \/ FinishAlone
    \/ Switch

SpecPair == InitPair /\ [][NextPair]_vars

----------------------------------------------------------------------------
(* _calculate_indicators on its own: the RSI of drawn closes *)

Rsi(period) == [type |-> "RSI", period |-> period]

RsiPeriods == {1, 2, 3}

RsiStrategies ==
    {Strat(<<"A">>, <<<<Group("AND", <<Lit(Rsi(period), "LT", 30)>>)>>, SellLow>>) :
        period \in RsiPeriods}

\* bars on the dates 1..n for every n up to MaxLen
CloseSeqs ==
    UNION {{Bars(1..n, closes) : closes \in [1..n -> Prices]} : n \in 1..MaxLen}

InitIndicators ==
    /\ strategy \in RsiStrategies
    /\ config = BaseConfig
    /\ progress_callback = FALSE
    /\ pc = "loaded"
    /\ \E data \in CloseSeqs : market_data = ("A" :> data)
    /\ indicators_data = <<>>
    /\ i = 0
    /\ sym_pos = 0
    /\ cash = 0
    /\ positions = <<>>
    /\ trades = <<>>
    /\ daily_returns = <<>>
    /\ notified = <<>>
    /\ error = ""
    /\ EvIdle
    /\ SingleCall

NextIndicators == CalculateIndicators

SpecIndicators == InitIndicators /\ [][NextIndicators]_vars

----------------------------------------------------------------------------
(* calculate_metrics on its own: one call on a drawn equity curve, ledger   *)
(* and initial capital                                                      *)

\* portfolio values (in currency units) and daily returns (percent) of a curve
CurveValues == {0, 1, 2}

CurveReturns == {Rat(0, 1), Rat(5, 1)}

Curves ==
    UNION {{[t \in 1..n |-> [date |-> t,
                             portfolioValue |-> entry[t][1] * MoneyScale,
                             dailyReturn |-> entry[t][2],
                             cumulativeReturn |-> Rat(0, 1)]] :
               entry \in [1..n -> CurveValues \X CurveReturns]} : n \in 0..MaxLen}

OneDayCurve ==
    <<[date |-> 1, portfolioValue |-> MoneyScale, dailyReturn |-> Rat(0, 1),
       cumulativeReturn |-> Rat(0, 1)]>>

\* what a trade of a ledger is: a BUY, or a SELL with this pnl
TradeKinds == {<<"BUY", 0>>} \cup {<<"SELL", pnl>> : pnl \in {100, 50, 0, -30}}

TradeOfKind(kind, n) ==
    IF kind[1] = "BUY"
    THEN [id |-> n, symbol |-> "A", type |-> "BUY", quantity |-> 1, price |-> 100,
          timestamp |-> n]
    ELSE [id |-> n, symbol |-> "A", type |-> "SELL", quantity |-> 1, price |-> 100,
          timestamp |-> n, pnl |-> kind[2] * MoneyScale, holdingPeriod |-> 1]

Ledgers ==
    UNION {{[n \in 1..len |-> TradeOfKind(kinds[n], n)] :
               kinds \in [1..len -> TradeKinds]} : len \in 0..MaxLen}

Capitals == {0, 1, 2}

\* every curve with two ledgers, and two curves with every ledger
MetricsInputs ==
    (Curves \X {<<>>, <<TradeOfKind(<<"SELL", 50>>, 1)>>}) \cup ({<<>>, OneDayCurve} \X Ledgers)

InitMetrics ==
    /\ strategy = BaseStrategy
    /\ \E initial_capital \in Capitals :
          config = Config(1, MaxDays, initial_capital, 0, 0)
    /\ progress_callback = FALSE
    /\ pc = "metrics"
    /\ market_data = <<>>
    /\ indicators_data = <<>>
    /\ i = 0
    /\ sym_pos = 0
    /\ cash = 0
    /\ positions = <<>>
    /\ \E input \in MetricsInputs :
          /\ daily_returns = input[1]
          /\ trades = input[2]
    /\ notified = <<>>
    /\ error = ""
    /\ EvIdle
    /\ SingleCall

\* calculate_metrics(daily_returns, trades, initial_capital) returns
\* performance_metrics or raises
CalculateMetrics ==
    /\ pc = "metrics"
    /\ error' = metrics_error(daily_returns, trades, config.initialCapital)
    /\ pc' = IF error' = "" THEN "done" ELSE "raised"
    /\ UNCHANGED <<strategy, config, progress_callback, market_data, indicators_data,
                   i, sym_pos, cash, positions, trades, daily_returns, notified>>
    /\ UNCHANGED evVars
    /\ UNCHANGED callVars

NextMetrics == CalculateMetrics

SpecMetrics == InitMetrics /\ [][NextMetrics]_vars

----------------------------------------------------------------------------
(* _evaluate_single_condition on its own: one call on drawn arguments *)

EvalValues == {NaN, Rat(1, 1), Rat(2, 1)}

EvalSeries == {Series(vals) : vals \in [1..EvalLen -> EvalValues]}

EvalOperators == {"GT", "GTE", "LT", "LTE", "EQ", "CROSS_UP", "CROSS_DOWN", "XX"}

EvalConditions ==
    {Rel(Price, operator, Sma2) : operator \in EvalOperators}
    \cup {Lit(Price, operator, value) : operator \in EvalOperators, value \in {1, 2}}
    \cup {Lit(Boll3, operator, 1) : operator \in EvalOperators}
    \cup {Rel(Price, operator, Boll3) : operator \in EvalOperators}

\* series one entry shorter than the others
ShortSeries == {Series(vals) : vals \in [1..(EvalLen - 1) -> EvalValues]}

\* both series present and of full length
FullCaches ==
    {(get_indicator_key(Price) :> left) @@ (get_indicator_key(Sma2) :> right) :
        left \in EvalSeries, right \in EvalSeries}

\* a series missing from the cache, or the right one shorter than the left
PartialCaches ==
    {(get_indicator_key(Price) :> left) : left \in EvalSeries}
    \cup {(get_indicator_key(Sma2) :> right) : right \in EvalSeries}
    \cup {(get_indicator_key(Price) :> left) @@ (get_indicator_key(Sma2) :> right) :
             left \in EvalSeries, right \in ShortSeries}

\* a DataFrame indicator next to the closes it was computed from
FrameCaches ==
    {(get_indicator_key(Price) :> left)
       @@ (get_indicator_key(Boll3)
             :> bollinger_bands(left.vals, Boll3.period, Boll3.stdDev)) :
        left \in EvalSeries}

EvalCaches == FullCaches \cup PartialCaches \cup FrameCaches

InitEval ==
    /\ strategy = BaseStrategy
    /\ config = BaseConfig
    /\ progress_callback = FALSE
    /\ pc = "eval"
    /\ market_data = <<>>
    /\ indicators_data = <<>>
    /\ i = 0
    /\ sym_pos = 0
    /\ cash = 0
    /\ positions = <<>>
    /\ trades = <<>>
    /\ daily_returns = <<>>
    /\ notified = <<>>
    /\ error = ""
    /\ evCond \in EvalConditions
    /\ evInd \in EvalCaches
    /\ evIndex \in 0..EvalLen
    /\ evResult = NoEval.result
    /\ SingleCall

\* lines 404-467: one call
EvaluateCondition ==
    /\ pc = "eval"
    /\ evResult = NoEval.result
    /\ evResult' = evaluate_single_condition(evCond, evInd, evIndex)
    /\ UNCHANGED <<evCond, evInd, evIndex>>
    /\ UNCHANGED runVars
    /\ UNCHANGED callVars

NextEval == EvaluateCondition

SpecEval == InitEval /\ [][NextEval]_vars

----------------------------------------------------------------------------
(* trading/position_manager.py: PositionManager.add_transaction.  Amounts  *)
(* are Decimals in the source; quantities, prices and fees are integers    *)
(* here and the average price is the exact quotient.                       *)

\* the engine is not running: what the trading specifications keep fixed
NoBacktest ==
    /\ strategy = BaseStrategy
    /\ config = BaseConfig
    /\ progress_callback = FALSE
    /\ pc = "idle"
    /\ market_data = <<>>
    /\ indicators_data = <<>>
    /\ i = 0
    /\ sym_pos = 0
    /\ cash = 0
    /\ positions = <<>>
    /\ trades = <<>>
    /\ daily_returns = <<>>
    /\ notified = <<>>
    /\ error = ""
    /\ EvIdle
    /\ sink = Returns
    /\ previous = <<>>
    /\ suspended = <<>>

\* PositionManager.__init__
NewManager ==
    [positions |-> <<>>, transactions |-> <<>>, total_invested |-> Rat(0, 1),
     total_realized_pnl |-> Rat(0, 1), total_fees |-> 0]

Transaction(symbol, action, quantity, price, fee) ==
    [symbol |-> symbol, action |-> action, quantity |-> quantity,
     price |-> price, fee |-> fee]

\* transaction.quantity * transaction.price + transaction.fee
BuyAmount(transaction) ==
    Rat(transaction.quantity * transaction.price + transaction.fee, 1)

\* _create_new_position
create_new_position(m, transaction) ==
    [m EXCEPT
       !.positions = (transaction.symbol :>
                         [quantity |-> transaction.quantity,
                          avg_price |-> Rat(transaction.price, 1),
                          total_cost |-> BuyAmount(transaction),
                          realized_pnl |-> Rat(0, 1),
                          total_fee |-> transaction.fee]) @@ @,
       !.total_invested = Reduce(RAdd(@, BuyAmount(transaction))),
       !.total_fees = @ + transaction.fee]

\* _handle_buy_transaction
handle_buy_transaction(m, transaction) ==
    LET position == m.positions[transaction.symbol]
        total_quantity == position.quantity + transaction.quantity
        total_value == RAdd(RMul(Rat(position.quantity, 1), position.avg_price),
                            Rat(transaction.quantity * transaction.price, 1))
        new_avg_price == Reduce(RMul(total_value, Rat(1, total_quantity)))
    IN  [m EXCEPT
           !.positions[transaction.symbol] =
               [@ EXCEPT !.quantity = total_quantity,
                         !.avg_price = new_avg_price,
                         !.total_cost = Reduce(RAdd(@, BuyAmount(transaction))),
                         !.total_fee = @ + transaction.fee],
           !.total_invested = Reduce(RAdd(@, BuyAmount(transaction)))]

\* _handle_sell_transaction, for a quantity the position holds
handle_sell_transaction(m, transaction) ==
    LET position == m.positions[transaction.symbol]
        sell_proceeds == Rat(transaction.quantity * transaction.price - transaction.fee, 1)
        cost_basis == RMul(Rat(transaction.quantity, 1), position.avg_price)
        realized_pnl == RSub(sell_proceeds, cost_basis)
        sold == [position EXCEPT
                   !.quantity = @ - transaction.quantity,
                   !.realized_pnl = Reduce(RAdd(@, realized_pnl)),
                   !.total_cost = Reduce(RSub(@, cost_basis)),
                   !.total_fee = @ + transaction.fee]
    IN  [m EXCEPT
           !.positions = IF sold.quantity = 0
                         THEN Without(@, transaction.symbol)
                         ELSE [@ EXCEPT ![transaction.symbol] = sold],
           !.total_realized_pnl = Reduce(RAdd(@, realized_pnl))]

\* _handle_sell_transaction raises ValueError
SellRaises(m, transaction) ==
    /\ transaction.symbol \in DOMAIN m.positions
    /\ transaction.action = "SELL"
    /\ transaction.quantity > m.positions[transaction.symbol].quantity

\* _update_existing_position, when nothing is raised
update_existing_position(m, transaction) ==
    LET handled == IF transaction.action = "BUY" THEN handle_buy_transaction(m, transaction)
                   ELSE IF transaction.action = "SELL" THEN handle_sell_transaction(m, transaction)
                   ELSE m
    IN  [handled EXCEPT !.total_fees = @ + transaction.fee]

\* _update_position_from_transaction, when nothing is raised
update_position_from_transaction(m, transaction) ==
    IF transaction.symbol \notin DOMAIN m.positions
    THEN IF transaction.action = "BUY" THEN create_new_position(m, transaction)
         ELSE m
    ELSE update_existing_position(m, transaction)

\* add_transaction: the manager it leaves and what it returns
add_transaction(m, transaction) ==
    LET recorded == [m EXCEPT !.transactions = Append(@, transaction)]
    IN  IF SellRaises(recorded, transaction)
        THEN [manager |-> recorded, returned |-> "False"]
        ELSE [manager |-> update_position_from_transaction(recorded, transaction),
              returned |-> "True"]

TransactionSymbols == {"A", "B"}

TransactionQuantities == {1, 2}

TransactionPrices == {1, 2}

TransactionFees == {1}

Transactions ==
    {Transaction(symbol, action, quantity, price, fee) :
        symbol \in TransactionSymbols, action \in {"BUY", "SELL"},
        quantity \in TransactionQuantities, price \in TransactionPrices,
        fee \in TransactionFees}

\* a fresh PositionManager
InitManager ==
    /\ NoBacktest
    /\ bots = <<>>
    /\ loops = <<>>
    /\ job = [running |-> FALSE, rest |-> <<>>]
    /\ clock = [day |-> 1, weekend |-> FALSE, time |-> "morning"]
    /\ halted = {}
    /\ manager = NewManager
    /\ returned = "-"

AddTransaction ==
    /\ manager # <<>>
    /\ Len(manager.transactions) < MaxCalls
    /\ \E transaction \in Transactions :
          LET result == add_transaction(manager, transaction)
          IN  /\ manager' = result.manager
              /\ returned' = result.returned
    /\ UNCHANGED <<bots, loops, job, clock, halted>>
    /\ UNCHANGED runVars
    /\ UNCHANGED evVars
    /\ UNCHANGED <<sink, previous, suspended>>

NextManager == AddTransaction

SpecManager == InitManager /\ [][NextManager]_vars

----------------------------------------------------------------------------
(* trading/bot.py: one cycle of TradingBot._trading_loop.  The awaits of    *)
(* a cycle are coroutines that never suspend (the Firebase and KIS calls    *)
(* are synchronous or stubs), so a cycle runs from one asyncio.sleep to the *)
(* next without another coroutine in between.                               *)

Amount(value) == [parses |-> TRUE, value |-> value]

\* a config value Decimal() cannot read
Unparsable == [parses |-> FALSE, value |-> 0]

BotConfig(max_daily_trades, max_total_investment) ==
    [max_daily_trades |-> max_daily_trades,
     max_total_investment |-> max_total_investment]

\* TradingBot.__init__
NewBot(bot_config) ==
    [status |-> "stopped", config |-> bot_config, positions |-> <<>>,
     active_orders |-> <<>>, trading_history |-> <<>>]

\* _is_market_open: a weekday between 9:00 and 15:30
is_market_open == ~clock.weekend /\ clock.time = "market"

\* _get_current_price returns Decimal('50000')
get_current_price == 50000

TradingSignal(symbol, action, quantity, price) ==
    [symbol |-> symbol, action |-> action, quantity |-> quantity,
     price |-> price, timestamp |-> clock.day]

\* _check_buy_conditions
check_buy_conditions(symbol, price) ==
    IF price < 55000 THEN <<TradingSignal(symbol, "buy", 1, price)>> ELSE <<>>

\* _check_sell_conditions: profit_rate > 0.05
check_sell_conditions(bot, symbol, price) ==
    LET position == bot.positions[symbol]
        profit == RSub(Rat(price, 1), position.avg_price)
    IN  IF RGt(RMul(profit, Rat(100, 1)), RMul(position.avg_price, Rat(5, 1)))
        THEN <<TradingSignal(symbol, "sell", position.quantity, price)>>
        ELSE <<>>

\* _generate_trading_signals over the strategy's targets
RECURSIVE generate_trading_signals(_, _)
generate_trading_signals(bot, targets) ==
    IF targets = <<>> THEN <<>>
    ELSE LET symbol == Head(targets)
             current_price == get_current_price
         IN  check_buy_conditions(symbol, current_price)
               \o (IF symbol \in DOMAIN bot.positions
                   THEN check_sell_conditions(bot, symbol, current_price)
                   ELSE <<>>)
               \o generate_trading_signals(bot, Tail(targets))

\* the records of trading_history that carry today's date
daily_trades(bot) ==
    LET Today(t) == t.timestamp = clock.day
    IN  Len(SelectSeq(bot.trading_history, Today))

RECURSIVE SumInvestment(_, _)
SumInvestment(held, symbols) ==
    IF symbols = {} THEN Rat(0, 1)
    ELSE LET symbol == CHOOSE x \in symbols : TRUE
         IN  Reduce(RAdd(RMul(Rat(held[symbol].quantity, 1), held[symbol].avg_price),
                         SumInvestment(held, symbols \ {symbol})))

\* sum(pos.quantity * pos.avg_price for pos in self.positions.values())
total_investment(bot) == SumInvestment(bot.positions, DOMAIN bot.positions)

RiskCheckWithoutDailyLimit(bot, signal) ==
    IF signal.action = "buy"
    THEN /\ bot.config.max_total_investment.parses
         /\ ~RGt(RAdd(total_investment(bot), Rat(signal.quantity * signal.price, 1)),
                 Rat(bot.config.max_total_investment.value, 1))
    ELSE TRUE

\* _risk_check: False also when Decimal(max_total_investment) raises
risk_check(bot, signal) ==
    IF daily_trades(bot) >= bot.config.max_daily_trades THEN FALSE
    ELSE IF signal.action = "buy"
         THEN /\ bot.config.max_total_investment.parses
              /\ ~RGt(RAdd(total_investment(bot), Rat(signal.quantity * signal.price, 1)),
                      Rat(bot.config.max_total_investment.value, 1))
         ELSE TRUE

\* _place_order: the id is built from the time and the symbol
place_order(signal) ==
    [order_id |-> <<clock.day, signal.symbol>>, symbol |-> signal.symbol,
     action |-> signal.action, quantity |-> signal.quantity,
     price |-> signal.price, status |-> "PENDING"]

\* self.active_orders[order.order_id] = order
PutOrder(orders, order) ==
    IF \E n \in DOMAIN orders : orders[n].order_id = order.order_id
    THEN [n \in DOMAIN orders |->
             IF orders[n].order_id = order.order_id THEN order ELSE orders[n]]
    ELSE Append(orders, order)

\* _process_trading_signal
process_trading_signal(bot, signal) ==
    IF ~risk_check(bot, signal) THEN bot
    ELSE LET order == place_order(signal)
         IN  [bot EXCEPT
                !.active_orders = PutOrder(@, order),
                !.trading_history =
                    Append(@, [timestamp |-> signal.timestamp, symbol |-> signal.symbol,
                               action |-> signal.action, quantity |-> signal.quantity,
                               price |-> signal.price, order_id |-> order.order_id])]

\* for signal in signals: break when the status is no longer ACTIVE
RECURSIVE ProcessSignals(_, _)
ProcessSignals(bot, signals) ==
    IF signals = <<>> \/ bot.status # "active" THEN bot
    ELSE ProcessSignals(process_trading_signal(bot, Head(signals)), Tail(signals))

\* _update_position_from_order
update_position_from_order(held, order) ==
    IF order.symbol \notin DOMAIN held
    THEN IF order.action = "buy"
         THEN (order.symbol :> [quantity |-> order.quantity,
                                avg_price |-> Rat(order.price, 1),
                                realized_pnl |-> Rat(0, 1)]) @@ held
         ELSE held
    ELSE LET position == held[order.symbol]
         IN  IF order.action = "buy"
             THEN LET total_quantity == position.quantity + order.quantity
                      total_value == RAdd(RMul(Rat(position.quantity, 1), position.avg_price),
                                          Rat(order.quantity * order.price, 1))
                  IN  [held EXCEPT ![order.symbol] =
                          [@ EXCEPT !.avg_price = Reduce(RMul(total_value, Rat(1, total_quantity))),
                                    !.quantity = total_quantity]]
             ELSE LET realized_pnl == RMul(RSub(Rat(order.price, 1), position.avg_price),
                                           Rat(order.quantity, 1))
                  IN  IF position.quantity - order.quantity <= 0
                      THEN Without(held, order.symbol)
                      ELSE [held EXCEPT ![order.symbol] =
                              [@ EXCEPT !.realized_pnl = Reduce(RAdd(@, realized_pnl)),
                                        !.quantity = @ - order.quantity]]

\* _update_positions: every pending order is filled and removed
RECURSIVE FillOrders(_, _)
FillOrders(held, orders) ==
    IF orders = <<>> THEN held
    ELSE FillOrders(update_position_from_order(held, Head(orders)), Tail(orders))

update_positions(bot) ==
    [bot EXCEPT !.positions = FillOrders(@, bot.active_orders),
                !.active_orders = <<>>]

\* the body of the while loop up to its asyncio.sleep: the bot it leaves
\* and the loop's local variable signals
TradingCycle(bot, signals, targets) ==
    IF ~is_market_open THEN [bot |-> bot, signals |-> signals]
    ELSE LET generated == generate_trading_signals(bot, targets)
         IN  [bot |-> update_positions(ProcessSignals(bot, generated)),
              signals |-> generated]

\* the targets of the strategy document read from Firebase; none when the
\* document is missing or the read fails
TargetLists == {<<>>, <<"A">>, <<"A", "B">>}

----------------------------------------------------------------------------
(* TradingBot's start, stop, pause and resume, the trading loops and the    *)
(* market-open and market-close jobs of trading/scheduler.py.  A loop is    *)
(* either inside one action or suspended in asyncio.sleep; the coroutine    *)
(* that awaits start_trading is suspended with it.                          *)

\* the keys of active_bots in the order of registration
BotKeys == <<"u1_s1", "u2_s1">>

Registered ==
    LET IsRegistered(key) == key \in DOMAIN bots
    IN  SelectSeq(BotKeys, IsRegistered)

JobIdle == [running |-> FALSE, rest |-> <<>>]

\* a _trading_loop suspended in its sleep, and who awaits start_trading
LoopFrame(bot_key, caller, signals) ==
    [bot |-> bot_key, caller |-> caller, signals |-> signals]

LoopsOf(bot_key) ==
    LET OfBot(frame) == frame.bot = bot_key
    IN  SelectSeq(loops, OfBot)

RemoveAt(seq, k) == SubSeq(seq, 1, k - 1) \o SubSeq(seq, k + 1, Len(seq))

\* start_trading of a bot that is not ACTIVE, up to the first sleep of its loop
StartLoop(bot_key, caller, all_bots, all_loops) ==
    \E targets \in TargetLists :
       LET started == [all_bots[bot_key] EXCEPT !.status = "active"]
           cycle == TradingCycle(started, <<>>, targets)
       IN  /\ bots' = [all_bots EXCEPT ![bot_key] = cycle.bot]
           /\ loops' = Append(all_loops, LoopFrame(bot_key, caller, cycle.signals))

\* TradingScheduler.start_bot -> TradingBot.start_trading
StartBot(bot_key) ==
    /\ bot_key \in DOMAIN bots
    /\ IF bots[bot_key].status = "active"
       THEN UNCHANGED <<bots, loops>>
       ELSE /\ Len(loops) < MaxLoops
            /\ StartLoop(bot_key, "start_bot", bots, loops)
    /\ halted' = halted \ {bot_key}
    /\ UNCHANGED <<job, clock, manager, returned>>
    /\ UNCHANGED runVars
    /\ UNCHANGED evVars
    /\ UNCHANGED <<sink, previous, suspended>>

\* stop_trading: status STOPPED, then _cancel_all_orders
stop_trading(bot) == [bot EXCEPT !.status = "stopped", !.active_orders = <<>>]

\* TradingScheduler.stop_bot -> TradingBot.stop_trading
StopBot(bot_key) ==
    /\ bot_key \in DOMAIN bots
    /\ bots' = [bots EXCEPT ![bot_key] = stop_trading(@)]
    /\ halted' = halted \cup {bot_key}
    /\ UNCHANGED <<loops, job, clock, manager, returned>>
    /\ UNCHANGED runVars
    /\ UNCHANGED evVars
    /\ UNCHANGED <<sink, previous, suspended>>

\* TradingScheduler.pause_bot -> TradingBot.pause_trading
PauseBot(bot_key) ==
    /\ bot_key \in DOMAIN bots
    /\ bots' = [bots EXCEPT ![bot_key].status = "paused"]
    /\ UNCHANGED <<loops, job, clock, halted, manager, returned>>
    /\ UNCHANGED runVars
    /\ UNCHANGED evVars
    /\ UNCHANGED <<sink, previous, suspended>>

\* TradingScheduler.resume_bot -> TradingBot.resume_trading
ResumeBot(bot_key) ==
    /\ bot_key \in DOMAIN bots
    /\ bots' = [bots EXCEPT ![bot_key].status =
                    IF @ = "paused" THEN "active" ELSE @]
    /\ UNCHANGED <<loops, job, clock, halted, manager, returned>>
    /\ UNCHANGED runVars
    /\ UNCHANGED evVars
    /\ UNCHANGED <<sink, previous, suspended>>

\* the first key of rest whose bot is STOPPED, 0 if there is none
RECURSIVE FirstStopped(_, _, _)
FirstStopped(rest, all_bots, n) ==
    IF n > Len(rest) THEN 0
    ELSE IF all_bots[rest[n]].status = "stopped" THEN n
    ELSE FirstStopped(rest, all_bots, n + 1)

\* the for loop of _start_market_trading over the bots still to visit, up
\* to the start_trading it stays suspended in, or to its end
VisitBots(rest, all_bots, all_loops) ==
    LET n == FirstStopped(rest, all_bots, 1)
    IN  IF n = 0
        THEN /\ bots' = all_bots
             /\ loops' = all_loops
             /\ job' = JobIdle
             /\ halted' = halted
        ELSE /\ StartLoop(rest[n], "market_open", all_bots, all_loops)
             /\ job' = [running |-> TRUE, rest |-> SubSeq(rest, n + 1, Len(rest))]
             /\ halted' = halted \ {rest[n]}

\* the cron job _start_market_trading (one instance at a time)
StartMarketTrading ==
    /\ bots # <<>>
    /\ ~job.running
    /\ Len(loops) < MaxLoops
    /\ IF clock.weekend
       THEN UNCHANGED <<bots, loops, job, halted>>
       ELSE VisitBots(Registered, bots, loops)
    /\ UNCHANGED <<clock, manager, returned>>
    /\ UNCHANGED runVars
    /\ UNCHANGED evVars
    /\ UNCHANGED <<sink, previous, suspended>>

\* the cron job _end_market_trading
end_market_trading(active_bots) ==
    [key \in DOMAIN active_bots |->
        IF active_bots[key].status = "active" THEN stop_trading(active_bots[key])
        ELSE active_bots[key]]

EndMarketTrading ==
    /\ bots # <<>>
    /\ bots' = end_market_trading(bots)
    /\ halted' = halted \cup {key \in DOMAIN bots : bots[key].status = "active"}
    /\ UNCHANGED <<loops, job, clock, manager, returned>>
    /\ UNCHANGED runVars
    /\ UNCHANGED evVars
    /\ UNCHANGED <<sink, previous, suspended>>

\* the sleep of loop k is over: the while test, and either one more cycle
\* or the return to the coroutine that awaits start_trading
Wake(k) ==
    /\ k \in DOMAIN loops
    /\ LET frame == loops[k]
           bot == bots[frame.bot]
       IN  IF bot.status = "active"
           THEN /\ \E targets \in TargetLists :
                      LET cycle == TradingCycle(bot, frame.signals, targets)
                      IN  /\ bots' = [bots EXCEPT ![frame.bot] = cycle.bot]
                          /\ loops' = [loops EXCEPT ![k].signals = cycle.signals]
                /\ UNCHANGED <<job, halted>>
           ELSE IF frame.caller = "market_open"
                THEN VisitBots(job.rest, bots, RemoveAt(loops, k))
                ELSE /\ loops' = RemoveAt(loops, k)
                     /\ UNCHANGED <<bots, job, halted>>
    /\ UNCHANGED <<clock, manager, returned>>
    /\ UNCHANGED runVars
    /\ UNCHANGED evVars
    /\ UNCHANGED <<sink, previous, suspended>>

WakeAny == \E k \in DOMAIN loops : Wake(k)

\* time passes: 9:00, 15:30, midnight
Tick ==
    /\ bots # <<>>
    /\ \/ /\ clock.time = "morning"
          /\ clock' = [clock EXCEPT !.time = "market"]
       \/ /\ clock.time = "market"
          /\ clock' = [clock EXCEPT !.time = "evening"]
       \/ /\ clock.time = "evening"
          /\ clock.day < TradingDays
          /\ \E weekend \in BOOLEAN :
                clock' = [day |-> clock.day + 1, weekend |-> weekend, time |-> "morning"]
    /\ UNCHANGED <<bots, loops, job, halted, manager, returned>>
    /\ UNCHANGED runVars
    /\ UNCHANGED evVars
    /\ UNCHANGED <<sink, previous, suspended>>

BotConfigs ==
    {BotConfig(max_daily_trades, max_total_investment) :
        max_daily_trades \in {1, 2},
        max_total_investment \in {Amount(50000), Unparsable}}

\* one registered bot
BotRegistries ==
    {(BotKeys[1] :> NewBot(bot_config)) : bot_config \in BotConfigs}

\* two registered bots
BotPairs ==
    {(BotKeys[1] :> NewBot(bot_config)) @@ (BotKeys[2] :> NewBot(bot_config)) :
        bot_config \in BotConfigs}

\* the scheduler has started and the bots of registry are registered
SchedulerStarted(registry) ==
    /\ NoBacktest
    /\ bots = registry
    /\ loops = <<>>
    /\ job = JobIdle
    /\ clock = [day |-> 1, weekend |-> FALSE, time |-> "morning"]
    /\ halted = {}
    /\ manager = <<>>
    /\ returned = "-"

InitTrading == \E registry \in BotRegistries : SchedulerStarted(registry)

NextTrading ==
    \/ \E bot_key \in DOMAIN bots : StartBot(bot_key)
    \/ \E bot_key \in DOMAIN bots : StopBot(bot_key)
    \/ \E bot_key \in DOMAIN bots : PauseBot(bot_key)
    \/ \E bot_key \in DOMAIN bots : ResumeBot(bot_key)
    \/ StartMarketTrading
    \/ EndMarketTrading
    \/ WakeAny
    \/ Tick

SpecTrading == InitTrading /\ [][NextTrading]_vars

\* two registered bots and the cron jobs alone: nobody calls start_bot,
\* stop_bot, pause_bot or resume_bot
InitScheduler == \E registry \in BotPairs : SchedulerStarted(registry)

NextScheduler ==
    \/ StartMarketTrading
    \/ EndMarketTrading
    \/ WakeAny
    \/ Tick

\* the event loop resumes a coroutine whose sleep is over; when the clock
\* advances and when a cron job fires is left open
FairSpecScheduler ==
    InitScheduler /\ [][NextScheduler]_vars /\ WF_vars(WakeAny)

----------------------------------------------------------------------------
(* Properties of the simulation loop *)

TradeAppended == Len(trades') = Len(trades) + 1

NewTrade == trades'[Len(trades')]

TradesOf(symbol) ==
    LET OfSymbol(t) == t.symbol = symbol
    IN  SelectSeq(trades, OfSymbol)

HasTrade(type) == \E n \in DOMAIN trades : trades[n].type = type

C1_BuyWithinCash ==
    [][TradeAppended /\ NewTrade.type = "BUY"
         => NewTrade.quantity * NewTrade.price * (100 + commission) <= cash]_vars

\* C1: cash is never negative in any state of a run, and every recorded BUY
\* costs shares * buyPrice * (1 + commissionRate) <= the cash held just before it.
C1_CashNeverNegative == [](cash >= 0) /\ C1_BuyWithinCash

\* a BUY paid with commission and slippage, followed by a SELL
C1_Witness ==
    /\ HasTrade("BUY")
    /\ HasTrade("SELL")
    /\ commission > 0
    /\ slippage > 0
    /\ cash >= 0

C2_Alternates ==
    \A symbol \in Range(strategy.symbols) :
        /\ \A n \in DOMAIN TradesOf(symbol) :
              TradesOf(symbol)[n].type = IF n % 2 = 1 THEN "BUY" ELSE "SELL"
        /\ Held(symbol) >= 0
        /\ (Held(symbol) > 0) = (Len(TradesOf(symbol)) % 2 = 1)

C2_OnlyWhenAllowed ==
    [][TradeAppended =>
         /\ NewTrade.type = "BUY" => Held(NewTrade.symbol) = 0
         /\ NewTrade.type = "SELL" => Held(NewTrade.symbol) > 0]_vars

\* C2: per symbol the trades alternate BUY, SELL, BUY, ... starting with a BUY;
\* a BUY is recorded only at quantity 0, a SELL only at quantity > 0, and the
\* quantity is never negative.
C2_FlatLongMachine ==
    [](pc \in {"day", "symbols", "done"} => C2_Alternates) /\ C2_OnlyWhenAllowed

\* a symbol that was bought, sold and bought again
C2_Witness ==
    /\ pc = "done"
    /\ \E symbol \in Range(strategy.symbols) :
          /\ Len(TradesOf(symbol)) >= 3
          /\ Held(symbol) > 0

\* C3: a SELL trade's quantity is the quantity held just before it, and the
\* symbol's quantity just after it is 0.
C3_SellLiquidatesAll ==
    [][TradeAppended /\ NewTrade.type = "SELL"
         => /\ NewTrade.quantity = Held(NewTrade.symbol)
            /\ positions'[NewTrade.symbol] = 0]_vars

\* a position of several shares was sold
C3_Witness ==
    \E n \in DOMAIN trades :
        /\ trades[n].type = "SELL"
        /\ trades[n].quantity > 1
        /\ Held(trades[n].symbol) = 0

\* the indicator references of all conditions of the strategy
IndicatorRefs ==
    LET conditions == AllConditions(strategy.buyConditions \o strategy.sellConditions)
    IN  {conditions[n].leftIndicator :
            n \in {m \in DOMAIN conditions : Has(conditions[m], "leftIndicator")}}
        \cup {conditions[n].rightIndicator :
            n \in {m \in DOMAIN conditions : Has(conditions[m], "rightIndicator")}}

Simulating == pc \in {"calculated", "day", "symbols", "done"}

Complete == RequiredStrategyFields \subseteq DOMAIN strategy

\* the percentage a riskManagement entry sets, 100 when it is not set
RiskPct(entry) ==
    IF Has(strategy, "riskManagement") /\ Has(strategy.riskManagement, entry)
    THEN strategy.riskManagement[entry]
    ELSE 100

\* every BUY has at most floor(initialCapital * pct / 100 / buyPrice) shares
BuysCappedBy(entry) ==
    \A n \in DOMAIN trades :
        trades[n].type = "BUY"
          => trades[n].quantity
               <= (config.initialCapital * RiskPct(entry)) \div trades[n].price

\* C4 as stated: riskManagement.maxPositionPct = p caps every BUY at
\* floor(initialCapital * p / 100 / buyPrice) shares, p = 100 when not set.
C4_CappedByMaxPositionPct == BuysCappedBy("maxPositionPct")

\* C4 amended: the entry that caps every BUY is riskManagement.maxPosition
\* (p = 100 when the strategy does not set it); maxPositionPct is not read.
C4_CappedByMaxPosition == BuysCappedBy("maxPosition")

\* a BUY at exactly the cap of maxPosition = 50, below what the cash affords
C4_Witness ==
    /\ Complete
    /\ RiskPct("maxPosition") = 50
    /\ \E n \in DOMAIN trades :
          /\ trades[n].type = "BUY"
          /\ trades[n].quantity = (config.initialCapital * 50) \div trades[n].price
          /\ trades[n].quantity >= 1
          /\ (trades[n].quantity + 1) * trades[n].price * (100 + commission)
               <= config.initialCapital * MoneyScale

\* C5 as stated: a strategy that passes validation and uses only known
\* indicator kinds never makes run_backtest raise, however a condition is
\* malformed.
C5_ConditionFaultsNeverAbort ==
    (/\ validate_inputs(strategy, config) = ""
     /\ \A ref \in IndicatorRefs : ref.type \in SupportedTypes)
      => pc # "raised"

NoEmptyAndGroup ==
    \A n \in DOMAIN (strategy.buyConditions \o strategy.sellConditions) :
        LET group == (strategy.buyConditions \o strategy.sellConditions)[n]
        IN  group.operator = "AND" => group.conditions # <<>>

NothingAtIndex0 ==
    /\ \A symbol \in DOMAIN indicators_data :
          /\ check_buy_signals(strategy.buyConditions, indicators_data[symbol], 0) # "T"
          /\ check_sell_signals(strategy.sellConditions, indicators_data[symbol], 0) # "T"
    /\ \A n \in DOMAIN trades :
          trades[n].timestamp # market_data[primary_symbol][1].date

\* C6 as stated: no signal fires at index 0 and no trade is recorded on the
\* first simulated day, for any strategy (groups without conditions included).
C6_NoSignalAtIndex0 == Simulating => NothingAtIndex0

\* C6 amended: the same for every strategy whose AND groups each have at
\* least one condition.
C6_NoSignalAtIndex0Amended == Simulating /\ NoEmptyAndGroup => NothingAtIndex0

\* the first two closes are equal, the buy rule holds of both, and the only
\* BUY is on the second day
C6_Witness ==
    /\ pc = "done"
    /\ NoEmptyAndGroup
    /\ total_days >= 2
    /\ market_data[primary_symbol][1].close = market_data[primary_symbol][2].close
    /\ \E n \in DOMAIN trades :
          /\ trades[n].type = "BUY"
          /\ trades[n].symbol = primary_symbol
          /\ trades[n].timestamp = market_data[primary_symbol][2].date

\* C7 as stated: two references that differ in kind or in a parameter have
\* different keys, so the series cached under a reference's key is the one
\* computed with that reference's parameters.
C7_KeysUnique ==
    Simulating =>
      /\ \A r1 \in IndicatorRefs : \A r2 \in IndicatorRefs :
            r1 # r2 => get_indicator_key(r1) # get_indicator_key(r2)
      /\ \A symbol \in DOMAIN indicators_data : \A ref \in IndicatorRefs :
            indicators_data[symbol][get_indicator_key(ref)]
              = calculate_single_indicator(market_data[symbol], ref)

C9_Invalid ==
    \/ \E field \in RequiredStrategyFields : field \notin DOMAIN strategy
    \/ \E field \in RequiredConfigFields : field \notin DOMAIN config
    \/ config.startDate >= config.endDate
    \/ config.initialCapital <= 0

\* C9: with a missing required field, startDate >= endDate or
\* initialCapital <= 0, run_backtest raises at validation: no market data is
\* loaded, no indicator computed, no notification emitted, no trade recorded
\* and no result returned.
C9_ValidationFailsFast ==
    C9_Invalid =>
      /\ pc \in {"start", "raised"}
      /\ pc = "raised" => error = "ValueError"
      /\ market_data = <<>>
      /\ indicators_data = <<>>
      /\ notified = <<>>
      /\ trades = <<>>
      /\ daily_returns = <<>>

\* a run with a progress sink was rejected for its initialCapital
C9_Witness ==
    /\ pc = "raised"
    /\ progress_callback
    /\ RequiredConfigFields \subseteq DOMAIN config
    /\ config.initialCapital <= 0

C10_UnknownKind == \E ref \in IndicatorRefs : ref.type \notin SupportedTypes

\* C10: when a condition references an unsupported indicator kind,
\* run_backtest raises before the first day: there is no notification, trade
\* or equity snapshot, and the day loop is never entered.
C10_UnknownKindRaisesBeforeFirstDay ==
    Complete /\ C10_UnknownKind =>
      /\ ~Simulating
      /\ notified = <<>>
      /\ trades = <<>>
      /\ daily_returns = <<>>

\* the unsupported kind is the right side of a sell condition; the run with
\* a progress sink raised after its market data was loaded
C10_Witness ==
    /\ pc = "raised"
    /\ error = "ValueError"
    /\ progress_callback
    /\ market_data # <<>>
    /\ Complete
    /\ \E n \in DOMAIN AllConditions(strategy.sellConditions) :
          LET condition == AllConditions(strategy.sellConditions)[n]
          IN  /\ Has(condition, "rightIndicator")
              /\ condition.rightIndicator.type \notin SupportedTypes

\* a group is true: all conditions of an AND group, one of an OR group
GroupTrue(group, indicators, index) ==
    LET IsTrue(n) ==
            evaluate_single_condition(group.conditions[n], indicators, index) = "T"
    IN  CASE group.operator = "AND" -> \A n \in DOMAIN group.conditions : IsTrue(n)
          [] group.operator = "OR" -> \E n \in DOMAIN group.conditions : IsTrue(n)
          [] OTHER -> FALSE

Fires(groups, indicators, index) ==
    \E n \in DOMAIN groups : GroupTrue(groups[n], indicators, index)

\* the signal check gives true exactly when a group is true
SignalAsStated(signal, groups, indicators, index) ==
    (signal = "T") = Fires(groups, indicators, index)

\* C11 as stated: a buy (sell) signal fires at index i iff at least one group
\* of the buy (sell) list is true, an AND group being true iff all of its
\* conditions are, an OR group iff at least one is, and a group with any
\* other operator never.
C11_GroupSemantics ==
    Simulating =>
      \A symbol \in DOMAIN indicators_data : \A index \in 0..(MaxDays - 1) :
         /\ SignalAsStated(check_buy_signals(strategy.buyConditions,
                                             indicators_data[symbol], index),
                           strategy.buyConditions, indicators_data[symbol], index)
         /\ SignalAsStated(check_sell_signals(strategy.sellConditions,
                                              indicators_data[symbol], index),
                           strategy.sellConditions, indicators_data[symbol], index)

\* the signal check returned (no exception left it) and agrees with Fires
ReturnedAsStated(signal, groups, indicators, index) ==
    signal # "X" => SignalAsStated(signal, groups, indicators, index)

C11_SignalsAsStated ==
    Simulating =>
      \A symbol \in DOMAIN indicators_data : \A index \in 0..(MaxDays - 1) :
         /\ ReturnedAsStated(check_buy_signals(strategy.buyConditions,
                                               indicators_data[symbol], index),
                             strategy.buyConditions, indicators_data[symbol], index)
         /\ ReturnedAsStated(check_sell_signals(strategy.sellConditions,
                                                indicators_data[symbol], index),
                             strategy.sellConditions, indicators_data[symbol], index)

C11_TradesOnlyOnSignal ==
    [][TradeAppended =>
         Fires(IF NewTrade.type = "BUY" THEN strategy.buyConditions
               ELSE strategy.sellConditions,
               indicators_data[NewTrade.symbol], i)]_vars

\* the part of C11 that the code satisfies: whenever the signal check
\* returns, it gives true exactly when a group is true, and a trade is
\* recorded only on a signal
C11_GroupSemanticsWhenReturned == []C11_SignalsAsStated /\ C11_TradesOnlyOnSignal

\* a SELL on the second of two sell groups, the first being false, after a
\* BUY on the second of two buy groups, the first having another operator
C11_Witness ==
    /\ pc = "done"
    /\ Len(strategy.buyConditions) = 2
    /\ strategy.buyConditions[1].operator \notin {"AND", "OR"}
    /\ Len(strategy.sellConditions) = 2
    /\ HasTrade("BUY")
    /\ \E n \in DOMAIN trades :
          /\ trades[n].type = "SELL"
          /\ \E t \in DOMAIN market_data[primary_symbol] :
                /\ market_data[primary_symbol][t].date = trades[n].timestamp
                /\ ~GroupTrue(strategy.sellConditions[1],
                              indicators_data[primary_symbol], t - 1)
                /\ GroupTrue(strategy.sellConditions[2],
                             indicators_data[primary_symbol], t - 1)

InLoop == pc \in {"day", "symbols"}

\* one snapshot per primary bar passed so far, in bar order
C13_OneSnapshotPerBar ==
    pc \in {"day", "symbols", "done"} =>
      /\ Len(daily_returns) = i
      /\ i <= total_days
      /\ pc = "symbols" => i < total_days
      /\ pc = "done" => i = total_days
      /\ \A t \in DOMAIN daily_returns :
            daily_returns[t].date = market_data[primary_symbol][t].date

\* the steps of the loop that are left: bars times (symbols + 2)
Remaining ==
    (total_days - i) * (Len(strategy.symbols) + 2)
      - (IF pc = "symbols" THEN sym_pos ELSE 0)

\* every step inside the loop uses one of the steps left, and the loop is
\* left only for the result or an exception
C13_LoopAdvances ==
    [][InLoop =>
         /\ pc' \in {"day", "symbols", "done", "raised"}
         /\ pc' \in {"day", "symbols"} => Remaining' >= 0 /\ Remaining' < Remaining
         /\ pc' = "done" => Remaining = 0 /\ daily_returns' = daily_returns]_vars

\* C13: the simulation loop ends after exactly one pass over the primary
\* symbol's bars with exactly one EquitySnapshot per primary bar, in bar
\* order, whatever trades occur and also when the cash is used up.
C13_OnePassTerminates ==
    /\ []C13_OneSnapshotPerBar
    /\ C13_LoopAdvances
    /\ (pc = "calculated" ~> pc \in {"done", "raised"})

\* all the cash went into a BUY on the second of MaxDays days, and the run
\* went on to one snapshot per day
C13_Witness ==
    /\ pc = "done"
    /\ total_days = MaxDays
    /\ Len(daily_returns) = MaxDays
    /\ cash = 0
    /\ \E n \in DOMAIN trades :
          /\ trades[n].type = "BUY"
          /\ trades[n].timestamp < market_data[primary_symbol][total_days].date
    /\ ~HasTrade("SELL")

HasBar(symbol, date) ==
    /\ symbol \in DOMAIN market_data
    /\ \E t \in DOMAIN market_data[symbol] : market_data[symbol][t].date = date

\* the close of the symbol's bar on the date
CloseOn(symbol, date) ==
    LET bars == market_data[symbol]
    IN  bars[CHOOSE t \in DOMAIN bars : bars[t].date = date].close

\* quantity times the date's close, times MoneyScale, summed over the first
\* n symbols of the strategy that are held and have a bar on the date
RECURSIVE WorthUpTo(_, _)
WorthUpTo(n, date) ==
    IF n = 0 THEN 0
    ELSE LET symbol == strategy.symbols[n]
         IN  WorthUpTo(n - 1, date)
               + (IF Held(symbol) > 0 /\ HasBar(symbol, date)
                  THEN Held(symbol) * CloseOn(symbol, date) * MoneyScale
                  ELSE 0)

SnapshotAppended == Len(daily_returns') = Len(daily_returns) + 1

NewSnapshot == daily_returns'[Len(daily_returns')]

\* C14: every EquitySnapshot's portfolioValue is the cash after that day's
\* trades plus the sum, over the symbols with quantity > 0 that have a bar on
\* that date, of quantity times that date's close.
C14_SnapshotValue ==
    [][SnapshotAppended =>
         /\ NewSnapshot.date = current_date
         /\ NewSnapshot.portfolioValue
               = cash + WorthUpTo(Len(strategy.symbols), current_date)
         /\ cash' = cash
         /\ positions' = positions]_vars

\* both symbols are held, the second has no bar on the date of the latest
\* snapshot, and the snapshot counts the cash and the first symbol only
C14_Witness ==
    /\ pc = "day"
    /\ Len(strategy.symbols) = 2
    /\ daily_returns # <<>>
    /\ LET snapshot == daily_returns[Len(daily_returns)]
           first == strategy.symbols[1]
           second == strategy.symbols[2]
       IN  /\ Held(first) > 0
           /\ Held(second) > 0
           /\ ~HasBar(second, snapshot.date)
           /\ snapshot.portfolioValue
                 = cash + Held(first) * CloseOn(first, snapshot.date) * MoneyScale
           /\ snapshot.portfolioValue > cash

C15_NoTradeWithoutBar ==
    Simulating =>
      \A n \in DOMAIN trades : HasBar(trades[n].symbol, trades[n].timestamp)

C15_SkippedUntouched ==
    [][(/\ pc = "symbols"
        /\ sym_pos <= Len(strategy.symbols)
        /\ ~HasBar(strategy.symbols[sym_pos], current_date))
         => /\ trades' = trades
            /\ positions' = positions
            /\ cash' = cash
            /\ pc' = "symbols"
            /\ sym_pos' = sym_pos + 1
            /\ i' = i]_vars

\* C15: on a primary date for which another symbol has no bar that symbol is
\* skipped: no trade of it is recorded on that date, its quantity and the
\* cash stay as they are, and the run goes on with the next symbol.
C15_SymbolWithoutBarSkipped == []C15_NoTradeWithoutBar /\ C15_SkippedUntouched

\* the second symbol was bought, has no bar on the last primary date, is still
\* held, and the run went on to its end
C15_Witness ==
    /\ pc = "done"
    /\ Len(strategy.symbols) = 2
    /\ total_days = MaxDays
    /\ Len(daily_returns) = MaxDays
    /\ LET second == strategy.symbols[2]
       IN  /\ ~HasBar(second, market_data[primary_symbol][total_days].date)
           /\ Held(second) > 0
           /\ \E n \in DOMAIN trades : trades[n].symbol = second

\* no buy group fires for any symbol at any index of the run
NoBuyFires ==
    \A symbol \in DOMAIN indicators_data : \A index \in 0..(total_days - 1) :
        check_buy_signals(strategy.buyConditions, indicators_data[symbol], index) # "T"

IsZero(r) == r # NaN /\ r[1] = 0

\* C19: if no buy group fires on any day of a run, the trade ledger is
\* empty, every EquitySnapshot's portfolioValue is initialCapital, and the
\* metrics report totalReturn = 0, maxDrawdown = 0 and totalTrades = 0.
C19_NoSignalNoChange ==
    Simulating /\ NoBuyFires =>
      /\ trades = <<>>
      /\ \A t \in DOMAIN daily_returns :
            daily_returns[t].portfolioValue = config.initialCapital * MoneyScale
      /\ pc = "done" =>
            /\ IsZero(performance_metrics.totalReturn)
            /\ IsZero(performance_metrics.maxDrawdown)
            /\ performance_metrics.totalTrades = 0

\* a finished run over MaxDays bars with changing closes whose buy
\* conditions, a cross among them, held on no day
C19_Witness ==
    /\ pc = "done"
    /\ NoBuyFires
    /\ total_days = MaxDays
    /\ Len(daily_returns) = MaxDays
    /\ \E n \in DOMAIN AllConditions(strategy.buyConditions) :
          AllConditions(strategy.buyConditions)[n].operator = "CROSS_UP"
    /\ \E t \in DOMAIN market_data[primary_symbol] :
          market_data[primary_symbol][t].close # market_data[primary_symbol][1].close

\* the positions in the ledger of the BUYs of the n-th trade's symbol before it
PriorBuys(n) ==
    {m \in 1..(n - 1) : trades[m].symbol = trades[n].symbol /\ trades[m].type = "BUY"}

\* C20: for every SELL the most recent prior BUY of the same symbol is the
\* BUY that opened the position being closed: no trade of the symbol lies
\* between them, it has the SELL's quantity and a strictly earlier date, so
\* pnl = proceeds - shares * thatBuy.price * (1 + commissionRate) and
\* holdingPeriod >= 1 day.
C20_SellClosesLastBuy ==
    Simulating =>
      \A n \in DOMAIN trades :
         trades[n].type = "SELL" =>
           /\ PriorBuys(n) # {}
           /\ LET m == CHOOSE x \in PriorBuys(n) : \A y \in PriorBuys(n) : y <= x
                  buy == trades[m]
                  sell == trades[n]
              IN  /\ \A between \in (m + 1)..(n - 1) :
                        trades[between].symbol # sell.symbol
                  /\ buy.quantity = sell.quantity
                  /\ buy.timestamp < sell.timestamp
                  /\ sell.pnl = sell.quantity * sell.price * (100 - commission)
                                  - sell.quantity * buy.price * (100 + commission)
                  /\ sell.holdingPeriod = sell.timestamp - buy.timestamp
                  /\ sell.holdingPeriod >= 1

\* a SELL right after the BUY of another symbol, at a price other than its
\* own BUY's, with commission
C20_Witness ==
    /\ pc = "done"
    /\ commission > 0
    /\ \E n \in DOMAIN trades :
          /\ trades[n].type = "SELL"
          /\ n > 1
          /\ trades[n - 1].type = "BUY"
          /\ trades[n - 1].symbol # trades[n].symbol
          /\ trades[n - 1].price # trades[n].price
          /\ trades[n].pnl # 0

RanBefore == previous # <<>> /\ strategy.id \in DOMAIN previous

\* C16 as stated: the ledger, the equity curve and the metrics of a run are
\* the same whether no sink is set or a sink is set, whatever the sink does
\* when it is notified.
C16_SinkObservational ==
    (/\ Finished
     /\ RanBefore
     /\ progress_callback # previous[strategy.id].progress_callback)
      => Result = previous[strategy.id].result

\* the part of C16 that the code satisfies: the sink returns when awaited
C16_ReturningSinkObservational == sink = Returns => C16_SinkObservational

\* C18: two runs with the same strategy, the same config and the same
\* input bars give identical trade ledgers (ids, symbols, sides, quantities,
\* prices, timestamps, pnl) and identical metrics.
C18_Deterministic ==
    (/\ Finished
     /\ RanBefore
     /\ progress_callback = previous[strategy.id].progress_callback)
      => Result = previous[strategy.id].result

\* the second of two runs has returned, with a BUY and a SELL with its pnl
\* in the ledger and a total return other than 0
C18_Witness ==
    /\ pc = "done"
    /\ RanBefore
    /\ progress_callback = previous[strategy.id].progress_callback
    /\ HasTrade("BUY")
    /\ \E n \in DOMAIN trades : trades[n].type = "SELL" /\ trades[n].pnl # 0
    /\ ~IsZero(performance_metrics.totalReturn)
    /\ Result = previous[strategy.id].result

\* the outcome of a call agrees with that of the same call run alone
AsAlone(frame) ==
    frame.pc \in {"done", "raised"} =>
      ResultOf(frame) = previous[frame.strategy.id].result

\* C17: two runs whose per-day steps are interleaved at the suspension
\* points each give the trade ledger and the equity curve (and metrics)
\* they give when run alone.
C17_RunsIsolated == BothRanAlone => AsAlone(Locals) /\ AsAlone(suspended)

\* both calls returned with trades, different ledgers, and the sink got
\* the last day's notification of one call right after that of the other
C17_Witness ==
    /\ BothRanAlone
    /\ pc = "done"
    /\ suspended.pc = "done"
    /\ trades # <<>>
    /\ suspended.trades # <<>>
    /\ trades # suspended.trades
    /\ Len(notified) >= 2
    /\ notified[Len(notified)].index = MaxDays - 1
    /\ notified[Len(notified) - 1].index = MaxDays - 1

----------------------------------------------------------------------------
(* Properties of _evaluate_single_condition *)

Evaluated == evResult # NoEval.result

EvLeft(index) == evInd[get_indicator_key(evCond.leftIndicator)].vals[index + 1]

\* the right side at an index: the indicator's value, or the literal
EvRight(index) ==
    IF Has(evCond, "rightIndicator")
    THEN evInd[get_indicator_key(evCond.rightIndicator)].vals[index + 1]
    ELSE Rat(evCond.value, 1)

\* both sides are numeric series of the cache
EvScalar ==
    /\ get_indicator_key(evCond.leftIndicator) \in DOMAIN evInd
    /\ ~IsFrame(evInd[get_indicator_key(evCond.leftIndicator)])
    /\ Has(evCond, "rightIndicator") =>
          /\ get_indicator_key(evCond.rightIndicator) \in DOMAIN evInd
          /\ ~IsFrame(evInd[get_indicator_key(evCond.rightIndicator)])
          /\ SeriesLen(evInd[get_indicator_key(evCond.rightIndicator)]) = EvalLen

EvDefinedAround ==
    /\ EvScalar
    /\ evIndex >= 1
    /\ evIndex < EvalLen
    /\ \A index \in {evIndex - 1, evIndex} :
          EvLeft(index) # NaN /\ EvRight(index) # NaN

\* C8 as stated: with both sides defined at i-1 and i (i >= 1), CROSS_UP is
\* true exactly when left[i-1] <= right[i-1] and left[i] > right[i], for an
\* indicator or a literal on the right; CROSS_DOWN is the mirror; neither
\* is true at index 0.
C8_CrossSemantics ==
    Evaluated /\ evCond.operator \in {"CROSS_UP", "CROSS_DOWN"} =>
      /\ evIndex = 0 => evResult = "F"
      /\ EvDefinedAround =>
            (evResult = "T") =
              IF evCond.operator = "CROSS_UP"
              THEN /\ RLe(EvLeft(evIndex - 1), EvRight(evIndex - 1))
                   /\ RGt(EvLeft(evIndex), EvRight(evIndex))
              ELSE /\ RGe(EvLeft(evIndex - 1), EvRight(evIndex - 1))
                   /\ RLt(EvLeft(evIndex), EvRight(evIndex))

\* the part of C8 that the code satisfies: the right side is an indicator
C8_CrossAgainstIndicator == Has(evCond, "rightIndicator") => C8_CrossSemantics

\* the entry of a cached indicator at an index has no value
ValueUndefined(values, index) ==
    IF IsFrame(values) THEN FrameUndefinedAt(values, index)
    ELSE values.vals[index + 1] = NaN

\* the series of a reference is missing from the cache, has no entry at
\* evIndex, or its value there (or just before, for a cross) is undefined
SideUndefined(ref) ==
    LET key == get_indicator_key(ref)
    IN  \/ key \notin DOMAIN evInd
        \/ evIndex >= SeriesLen(evInd[key])
        \/ ValueUndefined(evInd[key], evIndex)
        \/ /\ evCond.operator \in {"CROSS_UP", "CROSS_DOWN"}
           /\ evIndex >= 1
           /\ ValueUndefined(evInd[key], evIndex - 1)

EvUndefined ==
    \/ SideUndefined(evCond.leftIndicator)
    \/ Has(evCond, "rightIndicator") /\ SideUndefined(evCond.rightIndicator)

\* C12 as stated: when the left or right value at index i (or at i-1 for
\* CROSS_UP/CROSS_DOWN) is undefined, or the referenced series is missing
\* from the cache or has no entry at i, the condition evaluates to false
\* for every operator.
C12_UndefinedIsFalse == Evaluated /\ EvUndefined => evResult = "F"

EvNoFrame == \A key \in DOMAIN evInd : ~IsFrame(evInd[key])

\* the part of C12 that the code satisfies: every cached indicator is a
\* numeric series
C12_UndefinedScalarIsFalse == EvNoFrame => C12_UndefinedIsFalse

----------------------------------------------------------------------------
(* Properties of one visit of a symbol *)

CurrentSymbol == strategy.symbols[sym_pos]

\* the inner loop is at a symbol that has a bar on the current date
Visiting ==
    /\ pc = "symbols"
    /\ sym_pos <= Len(strategy.symbols)
    /\ HasBar(CurrentSymbol, current_date)

Flat(symbol) == symbol \notin DOMAIN positions \/ positions[symbol] = 0

\* a buy signal fires for the visited symbol, which is FLAT
BuySignalWhileFlat ==
    /\ Visiting
    /\ Flat(CurrentSymbol)
    /\ check_buy_signals(strategy.buyConditions, indicators_data[CurrentSymbol], i) = "T"

\* the cost of one share with slippage and commission, times MoneyScale
UnitCost(symbol) ==
    CloseOn(symbol, current_date) * (100 + config.slippage) * (100 + config.commission)

AffordableShares(symbol) ==
    IntDiv(cash, 100 * CloseOn(symbol, current_date) * (100 + config.slippage))

CapShares(symbol) ==
    IntDiv(config.initialCapital * max_position,
           CloseOn(symbol, current_date) * (100 + config.slippage))

SizedShares(symbol) ==
    IF AffordableShares(symbol) < CapShares(symbol) THEN AffordableShares(symbol)
    ELSE CapShares(symbol)

\* a BUY of the visited symbol is recorded on the current date and the
\* symbol becomes LONG
Bought ==
    /\ TradeAppended
    /\ NewTrade.type = "BUY"
    /\ NewTrade.symbol = CurrentSymbol
    /\ NewTrade.timestamp = current_date
    /\ CurrentSymbol \in DOMAIN positions'
    /\ positions'[CurrentSymbol] > 0

\* C26 as stated: whenever a buy signal fires for a FLAT symbol on a day on
\* which cash >= buyPrice * (1 + commissionRate) and capShares >= 1, a BUY
\* is recorded that day and the symbol becomes LONG.
C26_BuyWhenOneShareAffordable ==
    [][BuySignalWhileFlat /\ cash >= UnitCost(CurrentSymbol)
                          /\ CapShares(CurrentSymbol) >= 1 => Bought]_vars

\* C26 amended: whenever a buy signal fires for a FLAT symbol on a day on
\* which shares = min(affordableShares, capShares) is at least 1 and
\* shares * buyPrice * (1 + commissionRate) <= cash, a BUY of that many
\* shares is recorded that day and the symbol becomes LONG.
C26_BuyWhenSizedOrderAffordable ==
    [][BuySignalWhileFlat /\ SizedShares(CurrentSymbol) >= 1
                          /\ SizedShares(CurrentSymbol) * UnitCost(CurrentSymbol) <= cash
         => Bought /\ NewTrade.quantity = SizedShares(CurrentSymbol)]_vars

\* a run with commission bought on the current date: the symbol is LONG
C26_Witness ==
    /\ pc = "symbols"
    /\ config.commission > 0
    /\ trades # <<>>
    /\ trades[Len(trades)].type = "BUY"
    /\ trades[Len(trades)].timestamp = current_date
    /\ Held(trades[Len(trades)].symbol) = trades[Len(trades)].quantity

\* C27: when a buy signal fires for a FLAT symbol but shares =
\* min(affordableShares, capShares) is 0 or shares * buyPrice *
\* (1 + commissionRate) exceeds cash, no trade is appended, cash and every
\* position are unchanged and the symbol stays FLAT.
C27_NoBuyNoChange ==
    [][BuySignalWhileFlat
         /\ \/ SizedShares(CurrentSymbol) = 0
            \/ SizedShares(CurrentSymbol) * UnitCost(CurrentSymbol) > cash
         => /\ trades' = trades
            /\ cash' = cash
            /\ positions' = positions
            /\ \A symbol \in {CurrentSymbol} :
                  symbol \notin DOMAIN positions' \/ positions'[symbol] = 0]_vars

\* the symbol visited last had a buy signal while FLAT and a share was
\* affordable, but the sized order cost more than the cash: nothing was bought
C27_Witness ==
    /\ pc = "symbols"
    /\ sym_pos >= 2
    /\ trades = <<>>
    /\ cash = config.initialCapital * MoneyScale
    /\ LET symbol == strategy.symbols[sym_pos - 1]
       IN  /\ HasBar(symbol, current_date)
           /\ Flat(symbol)
           /\ check_buy_signals(strategy.buyConditions, indicators_data[symbol], i) = "T"
           /\ cash >= UnitCost(symbol)
           /\ SizedShares(symbol) >= 1
           /\ SizedShares(symbol) * UnitCost(symbol) > cash

\* the position (from 0) of the symbol's bar on the date in its bar sequence
OwnIndex(symbol, date) ==
    (CHOOSE t \in DOMAIN market_data[symbol] : market_data[symbol][t].date = date) - 1

\* C28 as stated: on each date the conditions of a symbol are evaluated at
\* the position of that symbol's own bar for that date within its bar
\* sequence, also when the symbol's bars do not have the primary symbol's
\* dates.  The conditions are evaluated at index i.
C28_EvaluatedAtOwnBar ==
    Visiting => i = OwnIndex(CurrentSymbol, current_date)

\* the symbol has a bar on every date of the primary symbol up to the date
SameDatesUpTo(symbol, date) ==
    \A t \in DOMAIN market_data[primary_symbol] :
       market_data[primary_symbol][t].date <= date
         => HasBar(symbol, market_data[primary_symbol][t].date)

\* the part of C28 that the code satisfies: the symbol has a bar on every
\* date of the primary symbol so far (and no other dates)
C28_AlignedWhenSameDates ==
    Visiting /\ SameDatesUpTo(CurrentSymbol, current_date) => C28_EvaluatedAtOwnBar

RECURSIVE SumOfPnl(_)
SumOfPnl(ledger) ==
    IF ledger = <<>> THEN 0
    ELSE (IF Head(ledger).type = "SELL" THEN Head(ledger).pnl ELSE 0)
           + SumOfPnl(Tail(ledger))

AllFlat == \A symbol \in Range(strategy.symbols) : Flat(symbol)

\* C29: in any run that ends with every symbol FLAT, final cash minus
\* initialCapital equals the sum of pnl over all SELL trades of the ledger.
C29_CashIsCapitalPlusPnl ==
    pc = "done" /\ AllFlat =>
      cash - config.initialCapital * MoneyScale = SumOfPnl(trades)

\* a run with commission that bought and sold, ended FLAT and changed its cash
C29_Witness ==
    /\ pc = "done"
    /\ AllFlat
    /\ config.commission > 0
    /\ HasTrade("SELL")
    /\ cash # config.initialCapital * MoneyScale

\* the portfolio value at the current date's closes
DayWorth == cash + WorthUpTo(Len(strategy.symbols), current_date)

TradeLowersWorth ==
    /\ DayWorth' <= DayWorth
    /\ config.commission = 0 /\ config.slippage = 0 => DayWorth' = DayWorth

\* C30 as stated: with commissionRate >= 0 and slippageRate >= 0, executing
\* a BUY or SELL on a day never makes that day's portfolioValue larger than
\* it would be without the trade, and with both rates equal to 0 it leaves
\* that day's portfolioValue unchanged.
C30_TradeNeverRaisesWorth ==
    [][TradeAppended /\ config.commission >= 0 /\ config.slippage >= 0
         => TradeLowersWorth]_vars

\* with both rates at most 100 percent a trade never raises the day's
\* portfolio value
TradeNeverRaisesWorthUpTo100 ==
    [][TradeAppended /\ config.commission \in 0..100 /\ config.slippage \in 0..100
         => TradeLowersWorth]_vars

----------------------------------------------------------------------------
(* Properties of calculate_metrics *)

\* calculate_metrics was called on the drawn arguments
MetricsCalled == pc \in {"done", "raised"}

PortfolioValues == [t \in DOMAIN daily_returns |-> daily_returns[t].portfolioValue]

\* the running maximum of portfolioValue up to entry t
RunningPeak(t) ==
    CHOOSE v \in {PortfolioValues[u] : u \in 1..t} :
        \A u \in 1..t : PortfolioValues[u] <= v

\* (runningPeak - value) / runningPeak * 100 at entry t
DrawdownAt(t) ==
    Reduce(Rat((RunningPeak(t) - PortfolioValues[t]) * 100, RunningPeak(t)))

\* d is the largest drawdown of the curve and lies in [0, 100]
IsMaxDrawdown(d) ==
    /\ d # NaN
    /\ RGe(Reduce(d), Rat(0, 1))
    /\ RLe(Reduce(d), Rat(100, 1))
    /\ \A t \in DOMAIN daily_returns : RGe(Reduce(d), DrawdownAt(t))
    /\ daily_returns # <<>> =>
          \E t \in DOMAIN daily_returns : REq(Reduce(d), DrawdownAt(t))

\* C21 as stated: for every equity curve the max drawdown is computed
\* without a failure, lies in [0, 100] and is the maximum over the run of
\* (runningPeak - value) / runningPeak * 100.
C21_MaxDrawdownInRange ==
    MetricsCalled => IsMaxDrawdown(calculate_max_drawdown(daily_returns))

\* the part of C21 that the code satisfies: the curve starts above 0
C21_MaxDrawdownOfPositiveStart ==
    daily_returns # <<>> /\ PortfolioValues[1] > 0 => C21_MaxDrawdownInRange

Sells == SelectSeq(trades, LAMBDA t : t.type = "SELL")

Winners == SelectSeq(trades, LAMBDA t : t.type = "SELL" /\ t.pnl > 0)

\* the win rate is 100 * winners / sells, within [0, 100], 0 without a SELL
WinRateAsFormula ==
    LET win_rate == performance_metrics.winRate
    IN  /\ RGe(win_rate, Rat(0, 1))
        /\ RLe(win_rate, Rat(100, 1))
        /\ IF Sells = <<>> THEN REq(win_rate, Rat(0, 1))
           ELSE REq(win_rate, Rat(100 * Len(Winners), Len(Sells)))

TwoOfThree == Len(Sells) = 3 /\ Len(Winners) = 2

\* C22 as stated: winRate = 100 * (SELL trades with pnl > 0) / (SELL
\* trades), within [0, 100], 0 without a SELL, and 2 winners out of 3 SELL
\* trades give 66.67.
C22_WinRateAsStated ==
    pc = "done" /\ daily_returns # <<>> =>
      /\ WinRateAsFormula
      /\ TwoOfThree => REq(performance_metrics.winRate, Rat(6667, 100))

\* C22 amended: winRate = 100 * (SELL trades with pnl > 0) / (SELL trades),
\* within [0, 100], 0 without a SELL; 2 winners out of 3 SELL trades give
\* 200/3 = 66.666..., unrounded, which is 66.67 to two decimals.
C22_WinRate ==
    pc = "done" /\ daily_returns # <<>> =>
      /\ WinRateAsFormula
      /\ TwoOfThree =>
            /\ REq(performance_metrics.winRate, Rat(200, 3))
            /\ RGt(performance_metrics.winRate, Rat(66665, 1000))
            /\ RLt(performance_metrics.winRate, Rat(66675, 1000))

\* the metrics of a ledger with a BUY and three SELLs, two of them winners
C22_Witness ==
    /\ pc = "done"
    /\ daily_returns # <<>>
    /\ TwoOfThree
    /\ HasTrade("BUY")
    /\ performance_metrics.winRate = Rat(200, 3)

Defined(x) == x # Number(NaN)

\* C23 as stated: for every non-empty equity curve calculate_metrics
\* returns defined (finite) volatility and sharpeRatio; the volatility is 0
\* when fewer than two daily returns remain after excluding day 0, and
\* sharpeRatio is 0 whenever the volatility is 0.
C23_VolatilityAndSharpeDefined ==
    MetricsCalled /\ daily_returns # <<>> /\ config.initialCapital > 0
                  /\ PortfolioValues[1] > 0 =>
      /\ pc = "done"
      /\ Defined(performance_metrics.volatility)
      /\ Defined(performance_metrics.sharpeRatio)
      /\ Len(daily_returns) - 1 < 2 =>
            performance_metrics.volatility = Number(Rat(0, 1))
      /\ performance_metrics.volatility = Number(Rat(0, 1)) =>
            performance_metrics.sharpeRatio = Number(Rat(0, 1))

\* the part of C23 that the code satisfies: the curve has not exactly two days
C23_DefinedUnlessTwoDays ==
    Len(daily_returns) # 2 => C23_VolatilityAndSharpeDefined

IsZeroNumber(x) == x = Number(Rat(0, 1))

\* C24: with an empty equity curve calculate_metrics returns the record
\* with totalReturn, annualizedReturn, volatility, sharpeRatio, maxDrawdown,
\* totalTrades, winRate, avgProfit and avgLoss all 0 and raises nothing,
\* whatever the trade list and initialCapital.
C24_EmptyCurveAllZero ==
    MetricsCalled /\ daily_returns = <<>> =>
      /\ pc = "done"
      /\ error = ""
      /\ DOMAIN performance_metrics =
            {"totalReturn", "annualizedReturn", "volatility", "sharpeRatio",
             "maxDrawdown", "totalTrades", "winRate", "avgProfit", "avgLoss"}
      /\ IsZero(performance_metrics.totalReturn)
      /\ IsZeroNumber(performance_metrics.annualizedReturn)
      /\ IsZeroNumber(performance_metrics.volatility)
      /\ IsZeroNumber(performance_metrics.sharpeRatio)
      /\ IsZero(performance_metrics.maxDrawdown)
      /\ performance_metrics.totalTrades = 0
      /\ IsZero(performance_metrics.winRate)
      /\ IsZero(performance_metrics.avgProfit)
      /\ IsZero(performance_metrics.avgLoss)

\* the call returned for an empty curve, a ledger with a winning and a
\* losing SELL and an initial capital of 0
C24_Witness ==
    /\ pc = "done"
    /\ daily_returns = <<>>
    /\ config.initialCapital = 0
    /\ \E n \in DOMAIN trades : trades[n].type = "SELL" /\ trades[n].pnl > 0
    /\ \E n \in DOMAIN trades : trades[n].type = "SELL" /\ trades[n].pnl < 0

----------------------------------------------------------------------------
(* Properties of the indicators *)

RsiPeriod == strategy.buyConditions[1].conditions[1].leftIndicator.period

RsiValues == indicators_data["A"][get_indicator_key(Rsi(RsiPeriod))].vals

Closes == [t \in DOMAIN market_data["A"] |-> market_data["A"][t].close]

\* the deltas of the trailing window of entry t (the first close has none)
WindowDeltas(t) ==
    {<<u, Closes[u] - Closes[u - 1]>> : u \in {v \in (t - RsiPeriod + 1)..t : v > 1}}

\* the rolling window of entry t is complete
WindowFull(t) == t >= RsiPeriod

NoLossIn(t) == \A d \in WindowDeltas(t) : d[2] >= 0

SomeGainIn(t) == \E d \in WindowDeltas(t) : d[2] > 0

RsiWithinRange(t) ==
    RsiValues[t] # NaN => RGe(RsiValues[t], Rat(0, 1)) /\ RLe(RsiValues[t], Rat(100, 1))

\* C25 as stated: where RSI(period) is defined its value lies in [0, 100],
\* and it is exactly 100 whenever the average loss over the trailing window
\* is 0, including a window whose deltas are all zero.
C25_RsiRange ==
    pc = "calculated" /\ strategy \in RsiStrategies =>
      \A t \in DOMAIN RsiValues :
         /\ RsiWithinRange(t)
         /\ WindowFull(t) /\ WindowDeltas(t) # {} /\ NoLossIn(t) =>
               RsiValues[t] = Rat(100, 1)

\* the part of C25 that the code satisfies: the value is 100 when the window
\* has no negative delta and at least one positive delta
C25_RsiRangeWithGain ==
    pc = "calculated" /\ strategy \in RsiStrategies =>
      \A t \in DOMAIN RsiValues :
         /\ RsiWithinRange(t)
         /\ WindowFull(t) /\ NoLossIn(t) /\ SomeGainIn(t) => RsiValues[t] = Rat(100, 1)

----------------------------------------------------------------------------
(* Properties of the trading bot and the scheduler *)

\* C31: for one TradingBot at most one _trading_loop is executing at any
\* time, under every interleaving of start_trading, stop_trading,
\* pause_trading and resume_trading calls, including a stop or pause
\* followed by a start while the earlier loop is suspended in its sleep.
C31_AtMostOneLoop ==
    \A bot_key \in DOMAIN bots : Len(LoopsOf(bot_key)) <= 1

\* what does hold: a loop is added only by a start_trading that finds the
\* bot not ACTIVE
C31_LoopOnlyFromInactive ==
    [][\A bot_key \in DOMAIN bots :
          Len(LoopsOf(bot_key)') > Len(LoopsOf(bot_key))
            => bots[bot_key].status # "active" /\ bots'[bot_key].status = "active"]_vars

\* C32: whenever a bot's status is ACTIVE, a trading loop for that bot is
\* running or will run without a further start_trading call; in particular
\* after pause_trading followed by resume_trading signals are processed again.
C32_ActiveHasLoop ==
    \A bot_key \in DOMAIN bots :
       bots[bot_key].status = "active" => LoopsOf(bot_key) # <<>>

\* what does hold: a resume that comes before the paused loop wakes leaves
\* the loop in place
C32_ResumeKeepsSleepingLoop ==
    [][\A bot_key \in DOMAIN bots :
          ResumeBot(bot_key) => LoopsOf(bot_key)' = LoopsOf(bot_key)]_vars

Pending(bot_key) ==
    /\ job.running
    /\ \E n \in DOMAIN job.rest : job.rest[n] = bot_key
    /\ bots[bot_key].status = "stopped"

\* C33: when the market-open job runs on a trading day, every registered
\* bot whose status is STOPPED is eventually started (its status becomes
\* ACTIVE), however many bots are registered and however long any one bot
\* keeps trading.
C33_EveryStoppedBotStarted ==
    \A bot_key \in {BotKeys[1], BotKeys[2]} :
       (bot_key \in DOMAIN bots /\ Pending(bot_key))
          ~> (bots[bot_key].status = "active")

\* what does hold: the job never leaves a STOPPED bot behind it
C33_StoppedBotsAreAhead ==
    [][StartMarketTrading /\ ~clock.weekend
         => \A bot_key \in DOMAIN bots :
               bots'[bot_key].status = "stopped" => Pending(bot_key)']_vars

HistoryAndPositionsKept(bot_key) ==
    /\ bots'[bot_key].trading_history = bots[bot_key].trading_history
    /\ bots'[bot_key].positions = bots[bot_key].positions

\* C34: once stop_trading has completed, active_orders is empty, and until
\* start_trading is called again the bot places no order, appends nothing
\* to trading_history and changes no position, even if a trading loop was
\* in the middle of a cycle when stop_trading was called.
C34_NothingAfterStop ==
    /\ [](\A bot_key \in halted : bots[bot_key].active_orders = <<>>)
    /\ [][\A bot_key \in halted \cap halted' : HistoryAndPositionsKept(bot_key)]_vars

\* what does hold: a bot trades only in a step that finds or makes it ACTIVE
C34_NothingWhileNotActive ==
    [][\A bot_key \in DOMAIN bots :
          bots'[bot_key].status # "active" => HistoryAndPositionsKept(bot_key)]_vars

WithinInvestmentLimit(bot) ==
    bot.config.max_total_investment.parses
      => RLe(total_investment(bot), Rat(bot.config.max_total_investment.value, 1))

\* C35: the bot's total investment limit holds in every reachable state:
\* the sum over its positions of quantity * avg_price never exceeds
\* max_total_investment, for any number of buy signals generated within one
\* trading cycle.
C35_InvestmentLimit ==
    \A bot_key \in DOMAIN bots : WithinInvestmentLimit(bots[bot_key])

\* what does hold: a cycle with at most one target keeps the limit
C35_InvestmentLimitOneSignal ==
    [][\A bot_key \in DOMAIN bots :
          /\ WithinInvestmentLimit(bots[bot_key])
          /\ Len(bots'[bot_key].trading_history) <= Len(bots[bot_key].trading_history) + 1
          => WithinInvestmentLimit(bots'[bot_key])]_vars

TradesOn(bot, day) ==
    LET OnDay(t) == t.timestamp = day
    IN  Len(SelectSeq(bot.trading_history, OnDay))

\* C36: the number of orders a bot places on one calendar day never exceeds
\* max_daily_trades: once that many records of trading_history carry
\* today's date, every further signal is rejected by the risk check, and a
\* fault inside the risk check also rejects the signal.
C36_DailyTradeLimit ==
    /\ [](\A bot_key \in DOMAIN bots : \A day \in 1..clock.day :
            TradesOn(bots[bot_key], day) <= bots[bot_key].config.max_daily_trades)
    /\ [][\A bot_key \in DOMAIN bots :
            \/ TradesOn(bots[bot_key], clock.day) >= bots[bot_key].config.max_daily_trades
            \/ ~bots[bot_key].config.max_total_investment.parses
            => bots'[bot_key].trading_history = bots[bot_key].trading_history]_vars

\* a cycle generated two signals today, the first was placed and used up
\* the day's limit, the second was rejected though the investment limit
\* had room for it (nothing was held when it was checked)
C36_Witness ==
    \E k \in DOMAIN loops :
       LET bot == bots[loops[k].bot]
       IN  /\ Len(loops[k].signals) = 2
           /\ \A n \in DOMAIN loops[k].signals : loops[k].signals[n].timestamp = clock.day
           /\ bot.config.max_daily_trades = 1
           /\ TradesOn(bot, clock.day) = 1
           /\ Len(bot.trading_history) = 1
           /\ bot.trading_history[1].symbol = loops[k].signals[1].symbol
           /\ bot.config.max_total_investment.parses
           /\ bot.config.max_total_investment.value >= loops[k].signals[2].price

\* C37: after the market-close job has completed, every registered bot is
\* stopped: no registered bot is ACTIVE and none is PAUSED.
\* (the job can run in every state, and a job that finds no ACTIVE bot
\* changes nothing, so the property is stated of the registry the job leaves)
C37_AllStoppedAfterClose ==
    \A bot_key \in DOMAIN bots :
        end_market_trading(bots)[bot_key].status \notin {"active", "paused"}

\* what does hold: no bot is ACTIVE after the job
C37_NoneActiveAfterClose ==
    \A bot_key \in DOMAIN bots : end_market_trading(bots)[bot_key].status # "active"

----------------------------------------------------------------------------
(* Properties of the PositionManager *)

\* the step is add_transaction(transaction)
Added(transaction) ==
    LET result == add_transaction(manager, transaction)
    IN  manager' = result.manager /\ returned' = result.returned

NotHeld(transaction) == transaction.symbol \notin DOMAIN manager.positions

ExceedsHeld(transaction) ==
    /\ transaction.symbol \in DOMAIN manager.positions
    /\ transaction.quantity > manager.positions[transaction.symbol].quantity

CannotBeApplied(transaction) ==
    transaction.action = "SELL" /\ (NotHeld(transaction) \/ ExceedsHeld(transaction))

BooksUnchanged ==
    /\ manager'.positions = manager.positions
    /\ manager'.total_invested = manager.total_invested
    /\ manager'.total_realized_pnl = manager.total_realized_pnl
    /\ manager'.total_fees = manager.total_fees

\* C38: a SELL that cannot be applied by PositionManager (its symbol is not
\* held, or its quantity exceeds the held quantity) is rejected:
\* add_transaction returns False and positions, transactions,
\* total_invested, total_realized_pnl and total_fees are all left unchanged.
C38_BadSellRejected ==
    [][\A transaction \in Transactions :
          CannotBeApplied(transaction) /\ Added(transaction)
            => /\ returned' = "False"
               /\ BooksUnchanged
               /\ manager'.transactions = manager.transactions]_vars

\* what does hold: such a SELL changes no position and no total, and one
\* that exceeds the held quantity returns False
C38_BadSellLeavesBooks ==
    [][\A transaction \in Transactions :
          CannotBeApplied(transaction) /\ Added(transaction)
            => /\ BooksUnchanged
               /\ ExceedsHeld(transaction) => returned' = "False"]_vars

RECURSIVE RecordedQuantity(_, _, _)
RecordedQuantity(transactions, symbol, action) ==
    IF transactions = <<>> THEN 0
    ELSE LET t == Head(transactions)
         IN  (IF t.symbol = symbol /\ t.action = action THEN t.quantity ELSE 0)
               + RecordedQuantity(Tail(transactions), symbol, action)

RecordedNet(symbol) ==
    RecordedQuantity(manager.transactions, symbol, "BUY")
      - RecordedQuantity(manager.transactions, symbol, "SELL")

\* C39: after any sequence of add_transaction calls with positive
\* quantities on a fresh PositionManager, every symbol in positions has
\* quantity >= 1 and that quantity equals the total quantity of the recorded
\* BUY transactions of the symbol minus the total quantity of its recorded
\* SELL transactions; a symbol absent from positions has the two totals equal.
C39_QuantityIsRecordedNet ==
    manager # <<>> =>
      \A symbol \in TransactionSymbols :
         IF symbol \in DOMAIN manager.positions
         THEN /\ manager.positions[symbol].quantity >= 1
              /\ manager.positions[symbol].quantity = RecordedNet(symbol)
         ELSE RecordedNet(symbol) = 0

\* what does hold: a held quantity is at least 1 and never below the
\* recorded net quantity, which is at most 0 for a symbol that is not held
C39_QuantityAtLeastRecordedNet ==
    manager # <<>> =>
      \A symbol \in TransactionSymbols :
         IF symbol \in DOMAIN manager.positions
         THEN /\ manager.positions[symbol].quantity >= 1
              /\ manager.positions[symbol].quantity >= RecordedNet(symbol)
         ELSE RecordedNet(symbol) <= 0

====
